---- MODULE Spec2Model ----
(***************************************************************************)
(* Model of the SLURM GitLab executor driver (driver.py,                   *)
(* slurm_interface.py): the bounded polling primitive wait_until, the      *)
(* name-based job lookup get_id_from_name, the run phase (attach, script   *)
(* dispatch, completion wait with incremental log forwarding, final drain),*)
(* the teardown try_stop, the request SLURMJobRequestData and its          *)
(* rendering, create and the prepare phase, clean_chdir, the decoding of   *)
(* an accounting record, successive executions of one script name, the     *)
(* teardown of run_cleanup_file_variables, and the termination of the      *)
(* completion wait and of wait_until under fair scheduling.                *)
(*                                                                         *)
(* The orchestrator is one sequential process whose position is pc.  The   *)
(* remote allocation and the scheduler are the environment: they act       *)
(* between any two steps of the orchestrator.                              *)
(***************************************************************************)
EXTENDS Integers, Sequences, FiniteSets, TLC

VARIABLES
    \* ---- wait_until (driver.py:14-20)
    pc,                 \* position of the orchestrator
    caller,             \* call site that invoked wait_until
    timeout_seconds,    \* wait_until's remaining budget
    wret,               \* value wait_until returned: "True", "False" ("none" before)
    N0,                 \* history: the timeout passed to the current wait_until call
    evals,              \* history: evaluations of the condition in the current call
    sleeps,             \* history: sleeps performed in the current call
    lastEval,           \* history: value of the latest evaluation ("none" if none)
    cond,               \* the value of an arbitrary caller-supplied predicate
    \* ---- get_id_from_name / attach (slurm_interface.py:219-239, driver.py:130-135)
    job_name,           \* the name looked up
    sacct_retcode,      \* exit status of the accounting query
    sacct_stdout,       \* its output: a sequence of lines, each a sequence of fields
    job,                \* the handle attach returned: a job id, "None", or the
                        \* exception that escaped; "unset" before the call
    \* ---- the environment: scheduler, remote allocation, shared workspace
    jobState,           \* the allocation's state in the scheduler's accounting
    files,              \* the paths that exist in the workspace
    data,               \* the content of each path (<<>> while it does not exist)
    logMtime,           \* modification time of the log file
    now,                \* the clock modification times are taken from
    remotePicked,       \* the remote polling loop has read the script
    remoteScript,       \* the script body it read
    cancelRequested,    \* scancel has been issued for the allocation
    workDirExists,      \* the workspace directory exists
    \* ---- execute_script and GitLabPhases.run (driver.py:156-181, 272-312)
    srcReadable,        \* whether the source script can be read
    script_content,     \* execute_script's script_content
    excPending,         \* an exception is propagating through a finally block
    read_bytes,         \* run's read_bytes
    last_read_timestamp,\* run's last_read_timestamp
    last_edit_timestamp,\* run's last_edit_timestamp
    sink,               \* everything printed to the output sink (stderr)
    outcome,            \* how the phase ended ("none" while it runs)
    \* ---- try_stop (driver.py:183-197)
    stop_timeout,       \* timeout_before_cancel
    cancelCalls,        \* number of scancel invocations
    recheck,            \* what the state query of driver.py:196 observed
    \* ---- history variables
    loopExit,           \* how the completion wait ended: "executed" or "break"
    waitsAfterLeave,    \* wait_until calls of run entered after the job left RUNNING
    finalDrainLen,      \* length of the log when the final drain read it (-1 before)
    finalRunning,       \* what the state query of driver.py:311 observed
    leftAt,             \* <<pc, caller>> at the moment the job left RUNNING
    sentinelAtLeave,    \* whether the completion sentinel existed at that moment
    \* ---- SLURMJobRequestData (slurm_interface.py:124-204)
    kwargs,             \* the keyword arguments passed to the constructor
    ctor,               \* how the constructor ended: "ok" or "TypeError"
    request,            \* the attributes of the constructed object
    artifact,           \* the lines to_sbatch_file_string returned
    \* ---- SLURMIdleJob.create and GitLabPhases.prepare (driver.py:93-128, 257-270)
    payload,            \* what holds of idle_script.sh: "isfile", "x", "r"
    sbatch_retcode,     \* exit status of sbatch
    sbatch_stdout,      \* its output: the ";"-separated fields of the first line
    job_id,             \* create's job_id
    registered,         \* the job ids the accounting database answers for
    sbatchCalls,        \* number of sbatch invocations
    timeout_secs,       \* prepare's timeout_secs
    existsSeen,         \* history: what the query of driver.py:128 observed
    startSeen,          \* history: what the query of driver.py:267 observed
    \* ---- SLURMIdleJob.clean_chdir (driver.py:199-204)
    keep_env,           \* the value of CI_KEEP_BUILD_DIR ("None" when not set)
    cleanCalls,         \* history: completed calls of clean_chdir
    dirAtCall,          \* history: whether the directory existed, per call
    filesAtCall,        \* history: the workspace's files at the last call
    \* ---- SLURMRegisteredJobData, SLURMJobState (slurm_interface.py:35-121)
    raw_JobID,          \* the JobID field the accounting query printed
    raw_State,          \* the State field it printed
    reg_id,             \* SLURMRegisteredJobData.id
    reg_state,          \* SLURMRegisteredJobData.state
    \* ---- successive invocations of the run phase (driver.py:340-369)
    execution,          \* number of the current execution of the script name
    staleSentinel,      \* history: the sentinel existed when this execution began
    staleLen            \* history: length of the log when this execution began

waitVars == <<pc, caller, timeout_seconds, wret, N0, evals, sleeps, lastEval>>
attachVars == <<job_name, sacct_retcode, sacct_stdout, job>>
envVars == <<jobState, files, data, logMtime, now, remotePicked, remoteScript,
            cancelRequested, workDirExists>>
runVars == <<srcReadable, script_content, excPending, read_bytes,
            last_read_timestamp, last_edit_timestamp, sink, outcome>>
stopVars == <<stop_timeout, cancelCalls, recheck>>
histVars == <<loopExit, waitsAfterLeave, finalDrainLen, finalRunning, leftAt,
             sentinelAtLeave>>
vars == <<pc, caller, timeout_seconds, wret, N0, evals, sleeps, lastEval, cond,
          job_name, sacct_retcode, sacct_stdout, job,
          jobState, files, data, logMtime, now, remotePicked, remoteScript,
          cancelRequested, workDirExists,
          srcReadable, script_content, excPending, read_bytes,
          last_read_timestamp, last_edit_timestamp, sink, outcome,
          stop_timeout, cancelCalls, recheck,
          loopExit, waitsAfterLeave, finalDrainLen, finalRunning, leftAt,
          sentinelAtLeave,
          kwargs, ctor, request, artifact,
          payload, sbatch_retcode, sbatch_stdout, job_id, registered, sbatchCalls,
          timeout_secs, existsSeen, startSeen,
          keep_env, cleanCalls, dirAtCall, filesAtCall,
          raw_JobID, raw_State, reg_id, reg_state,
          execution, staleSentinel, staleLen>>
renderVars == <<kwargs, ctor, request, artifact>>
prepVars == <<payload, sbatch_retcode, sbatch_stdout, job_id, registered,
             sbatchCalls, timeout_secs, existsSeen, startSeen>>
cleanVars == <<keep_env, cleanCalls, dirAtCall, filesAtCall>>
decodeVars == <<raw_JobID, raw_State, reg_id, reg_state>>
rerunVars == <<execution, staleSentinel, staleLen>>
extVars == <<renderVars, prepVars, cleanVars, decodeVars, rerunVars>>

\* ---- bounds of the model
MaxWaitTimeout == 6     \* largest timeout passed to a stand-alone wait_until

\* ---- the workspace paths (driver.py:147-154, 172, 184)
ScriptPath == "script.gitlab_ci_step_script"
ExecutedPath == "script.gitlab_ci_step_script.executed"
LogPath == "script.gitlab_ci_step_script.log"
TmpPath == "script.gitlab_ci_step_script.tmp"
ExitPath == "batch.gitlab_ci_exit"
BatchPath == "config.sbatch"
Paths == {ScriptPath, ExecutedPath, LogPath, TmpPath, ExitPath, BatchPath}

\* ---- the values of the variables an operation does not use
WaitIdle ==
    /\ caller = "none"
    /\ timeout_seconds = 0
    /\ N0 = 0
    /\ evals = 0
    /\ sleeps = 0
    /\ lastEval = "none"
    /\ wret = "none"
    /\ cond = FALSE

AttachIdle ==
    /\ job_name = <<"a">>
    /\ sacct_retcode = 0
    /\ sacct_stdout = <<>>
    /\ job = "unset"

EnvIdle ==
    /\ jobState = "RUNNING"
    /\ files = {}
    /\ data = [p \in Paths |-> <<>>]
    /\ logMtime = 0
    /\ now = 1
    /\ remotePicked = FALSE
    /\ remoteScript = <<>>
    /\ cancelRequested = FALSE
    /\ workDirExists = TRUE

RunIdle ==
    /\ srcReadable = TRUE
    /\ script_content = <<>>
    /\ excPending = FALSE
    /\ read_bytes = 0
    /\ last_read_timestamp = 0
    /\ last_edit_timestamp = 0
    /\ sink = <<>>
    /\ outcome = "none"

StopIdle ==
    /\ stop_timeout = 0
    /\ cancelCalls = 0
    /\ recheck = "none"

HistIdle ==
    /\ loopExit = "none"
    /\ waitsAfterLeave = 0
    /\ finalDrainLen = -1
    /\ finalRunning = "none"
    /\ leftAt = <<"never", "none">>
    /\ sentinelAtLeave = FALSE

RenderIdle ==
    /\ kwargs = <<>>
    /\ ctor = "unset"
    /\ request = <<>>
    /\ artifact = <<>>

PrepIdle ==
    /\ payload = {"isfile", "x", "r"}
    /\ sbatch_retcode = 0
    /\ sbatch_stdout = <<>>
    /\ job_id = "unset"
    /\ registered = {}
    /\ sbatchCalls = 0
    /\ timeout_secs = 0
    /\ existsSeen = "none"
    /\ startSeen = "none"

CleanIdle ==
    /\ keep_env = "None"
    /\ cleanCalls = 0
    /\ dirAtCall = <<>>
    /\ filesAtCall = {}

DecodeIdle ==
    /\ raw_JobID = <<>>
    /\ raw_State = <<>>
    /\ reg_id = "unset"
    /\ reg_state = "unset"

RerunIdle ==
    /\ execution = 1
    /\ staleSentinel = FALSE
    /\ staleLen = 0

ExtIdle == RenderIdle /\ PrepIdle /\ CleanIdle /\ DecodeIdle /\ RerunIdle


----------------------------------------------------------------------------
(* wait_until, driver.py:14-20                                             *)

\* mutant of wait_loop_guard: the loop runs while budget is left
wait_loop_guard_Positive(t) == t > 0

\* `while timeout_seconds != 0` (driver.py:15)
wait_loop_guard(t) == t # 0

\* SLURMIdleJob.is_running (driver.py:138-142): a fresh accounting query
is_running == jobState = "RUNNING"

\* the statement after the call of wait_until, per call site
return_site(c) ==
    CASE c = "pure" -> "wait_done"
      [] c = "run" -> "run_loop_test"
      [] c = "try_stop" -> "stop_finally"
      [] c = "create" -> "create_return"
      [] c = "prepare" -> "prep_check"

\* SLURMInterface.exists (slurm_interface.py:254-256): the accounting query
\* answers for the id
exists(id) == id \in registered

\* the condition passed by the call sites that evaluate it in one step:
\* an arbitrary predicate, `lambda: not self.is_running()` (driver.py:194),
\* `lambda: SLURMInterface.exists(job_id)` (driver.py:127) and
\* `lambda: job.is_running()` (driver.py:266)
condition(c) ==
    CASE c = "pure" -> cond
      [] c = "try_stop" -> ~is_running
      [] c = "create" -> exists(job_id)
      [] c = "prepare" -> is_running

\* entering wait_until(condition, n) from call site c
wait_until_enter(c, n) ==
    /\ caller' = c
    /\ timeout_seconds' = n
    /\ N0' = n
    /\ evals' = 0
    /\ sleeps' = 0
    /\ lastEval' = "none"
    /\ wret' = "none"
    /\ pc' = "wait_test"

PyBool(b) == IF b THEN "True" ELSE "False"

\* `return v` of wait_until
wait_until_return(v) ==
    /\ wret' = PyBool(v)
    /\ pc' = return_site(caller)

\* driver.py:15 and driver.py:20: the loop test, and `return False` when it fails
WaitTest ==
    /\ pc = "wait_test"
    /\ IF wait_loop_guard(timeout_seconds)
         THEN pc' = "wait_eval" /\ wret' = wret
         ELSE wait_until_return(FALSE)
    /\ UNCHANGED <<caller, timeout_seconds, N0, evals, sleeps, lastEval, cond>>
    /\ UNCHANGED <<attachVars, envVars, runVars, stopVars, histVars>>
    /\ UNCHANGED extVars

\* driver.py:16-17: `if condition(): return True`
WaitEval ==
    /\ pc = "wait_eval"
    /\ caller \in {"pure", "try_stop", "create", "prepare"}
    /\ evals' = evals + 1
    /\ lastEval' = PyBool(condition(caller))
    /\ IF condition(caller)
         THEN wait_until_return(TRUE)
         ELSE pc' = "wait_sleep" /\ wret' = wret
    /\ UNCHANGED <<caller, timeout_seconds, N0, sleeps, cond>>
    /\ UNCHANGED <<attachVars, envVars, runVars, stopVars, histVars>>
    /\ UNCHANGED extVars

\* driver.py:18-19: `time.sleep(1); timeout_seconds -= 1`
WaitSleep ==
    /\ pc = "wait_sleep"
    /\ sleeps' = sleeps + 1
    /\ timeout_seconds' = timeout_seconds - 1
    /\ pc' = "wait_test"
    /\ UNCHANGED <<caller, wret, N0, evals, lastEval, cond>>
    /\ UNCHANGED <<attachVars, envVars, runVars, stopVars, histVars>>
    /\ UNCHANGED extVars

\* the caller's predicate is arbitrary: its value may change at any moment
PredicateChanges ==
    /\ caller = "pure"
    /\ pc \in {"wait_test", "wait_eval", "wait_sleep"}
    /\ cond' = ~cond
    /\ UNCHANGED waitVars
    /\ UNCHANGED <<attachVars, envVars, runVars, stopVars, histVars>>
    /\ UNCHANGED extVars

----------------------------------------------------------------------------
(* get_id_from_name and attach                                             *)
(*                                                                         *)
(* Text is modelled as sequences: a name is a sequence of characters, a    *)
(* Submit timestamp a fixed-length sequence of digits, the query's output  *)
(* a sequence of lines and a line the sequence of its "|"-separated        *)
(* fields <<JobID, JobName, Submit>>.  sacct prints the jobs selected by   *)
(* --name and their steps; a step's JobID carries a ".<step>" suffix and   *)
(* its JobName is the step's own name.                                     *)

\* ---- bounds of the model
MaxLines == 2           \* most lines in the accounting query's output
StampLen == 2           \* digits of a Submit timestamp

Names == {<<"a">>, <<"a", "b">>, <<"b">>}
JobIds == {"101", "101.0", "102"}
Stamps == [1..StampLen -> 0..1]
Records == {<<i, n, t>> : i \in JobIds, n \in Names, t \in Stamps}
SeqsUpTo(S, n) == UNION {[1..k -> S] : k \in 0..n}
AcctOutputs == SeqsUpTo(Records, MaxLines)

\* Python `sub in s` on strings
Contains(sub, s) ==
    \E i \in 0..(Len(s) - Len(sub)) : SubSeq(s, i + 1, i + Len(sub)) = sub

\* Python `a < b` on strings (lexicographic)
RECURSIVE str_less(_, _)
str_less(a, b) ==
    IF a = <<>> THEN b # <<>>
    ELSE IF b = <<>> THEN FALSE
    ELSE IF Head(a) = Head(b) THEN str_less(Tail(a), Tail(b))
    ELSE Head(a) < Head(b)

\* `stdout.split("\n")` (slurm_interface.py:230): the stripped output of a query
\* that printed nothing is "", and "".split("\n") is [""], one line whose
\* only field is the empty string
split_lines(stdout) == IF stdout = <<>> THEN << <<"">> >> ELSE stdout

\* `max(stdout_lines, key=lambda x: x.strip().split("|")[2])`
\* (slurm_interface.py:238): the first line with the greatest Submit field
RECURSIVE max_by_submit(_, _)
max_by_submit(lines, best) ==
    IF lines = <<>> THEN best
    ELSE max_by_submit(Tail(lines),
                       IF str_less(best[3], Head(lines)[3]) THEN Head(lines) ELSE best)

\* the filter of slurm_interface.py:234 on one line
name_filter(name, line) == Contains(name, line[2])

\* SLURMInterface.get_id_from_name (slurm_interface.py:219-239).  The result is
\* a job id, "None", or "IndexError" when a subscript of a split line is out of
\* range.
get_id_from_name(name, retcode, stdout) ==
    IF retcode # 0 THEN "None"
    ELSE LET stdout_lines == split_lines(stdout) IN
         IF Len(stdout_lines) = 0 THEN "None"
         ELSE IF \E i \in 1..Len(stdout_lines) : Len(stdout_lines[i]) < 2
              THEN "IndexError"
         ELSE LET kept == SelectSeq(stdout_lines, LAMBDA x : name_filter(name, x)) IN
              IF Len(kept) = 0 THEN "None"
              ELSE IF \E i \in 1..Len(kept) : Len(kept[i]) < 3 THEN "IndexError"
              ELSE max_by_submit(Tail(kept), Head(kept))[1]

\* SLURMIdleJob.attach (driver.py:130-135): the handle carries the id found; an
\* exception of the lookup escapes
attach(name, retcode, stdout) == get_id_from_name(name, retcode, stdout)

\* attach(job_name, work_dir) as one step
Attach ==
    /\ pc = "attach"
    /\ job' = attach(job_name, sacct_retcode, sacct_stdout)
    /\ pc' = "attach_done"
    /\ UNCHANGED <<caller, timeout_seconds, wret, N0, evals, sleeps, lastEval, cond>>
    /\ UNCHANGED <<job_name, sacct_retcode, sacct_stdout>>
    /\ UNCHANGED <<envVars, runVars, stopVars, histVars>>
    /\ UNCHANGED extVars

\* attach called with any name against any output of the accounting query
InitAttach ==
    /\ pc = "attach"
    /\ WaitIdle
    /\ job_name \in Names
    /\ sacct_retcode \in {0, 1}
    /\ sacct_stdout \in AcctOutputs
    /\ job = "unset"
    /\ EnvIdle
    /\ RunIdle
    /\ StopIdle
    /\ HistIdle
    /\ ExtIdle

NextAttach == Attach

SpecAttach == InitAttach /\ [][NextAttach]_vars

----------------------------------------------------------------------------
(* The environment: the scheduler and the remote allocation                *)
(*                                                                         *)
(* The remote side is the idle loop running inside the allocation.  It     *)
(* polls the workspace for the script, runs it with its output appended to *)
(* the log file, and creates the completion sentinel; it acts only while   *)
(* the allocation is RUNNING.  An allocation that left RUNNING does not    *)
(* return to it.  The environment is followed until the phase has ended.   *)

\* ---- bounds of the model
MaxLogLen == 3          \* most bytes the remote side appends to the log
MaxChunk == 2           \* most bytes of one append operation
MaxClock == 3           \* the clock's last value
ScriptLen == 2          \* bytes of the source script

TerminalStates == {"CANCELLED", "COMPLETED"}

\* the source script's body, and the k-th byte the remote script prints
ScriptBody == [i \in 1..ScriptLen |-> i]
LogByte(k) == k

orchVars == <<pc, caller, timeout_seconds, wret, N0, evals, sleeps, lastEval, cond>>

\* the scheduler starts a pending allocation
JobStarts ==
    /\ jobState = "PENDING"
    /\ pc # "done"
    /\ jobState' = "RUNNING"
    /\ UNCHANGED <<files, data, logMtime, now, remotePicked, remoteScript,
                   cancelRequested, workDirExists>>
    /\ UNCHANGED <<orchVars, attachVars, runVars, stopVars, histVars>>
    /\ UNCHANGED extVars

\* the allocation leaves RUNNING: cancelled from outside or by the scancel
\* issued, or its batch script ends
JobLeavesRunning ==
    /\ jobState = "RUNNING"
    /\ pc # "done"
    /\ jobState' \in TerminalStates
    /\ leftAt' = <<pc, caller>>
    /\ sentinelAtLeave' = (ExecutedPath \in files)
    /\ UNCHANGED <<files, data, logMtime, now, remotePicked, remoteScript,
                   cancelRequested, workDirExists>>
    /\ UNCHANGED <<loopExit, waitsAfterLeave, finalDrainLen, finalRunning>>
    /\ UNCHANGED <<orchVars, attachVars, runVars, stopVars>>
    /\ UNCHANGED extVars

\* time passes
Tick ==
    /\ now < MaxClock
    /\ pc # "done"
    /\ now' = now + 1
    /\ UNCHANGED <<jobState, files, data, logMtime, remotePicked, remoteScript,
                   cancelRequested, workDirExists>>
    /\ UNCHANGED <<orchVars, attachVars, runVars, stopVars, histVars>>
    /\ UNCHANGED extVars

\* the remote polling loop finds the script at its canonical path and reads it
RemotePicksUp ==
    /\ jobState = "RUNNING"
    /\ ~remotePicked
    /\ ScriptPath \in files
    /\ remotePicked' = TRUE
    /\ remoteScript' = data[ScriptPath]
    /\ UNCHANGED <<jobState, files, data, logMtime, now, cancelRequested, workDirExists>>
    /\ UNCHANGED <<orchVars, attachVars, runVars, stopVars, histVars>>
    /\ UNCHANGED extVars

\* the remote side creates the log file
RemoteCreatesLog ==
    /\ jobState = "RUNNING"
    /\ remotePicked
    /\ pc # "done"
    /\ LogPath \notin files
    /\ files' = files \cup {LogPath}
    /\ logMtime' = now
    /\ UNCHANGED <<jobState, data, now, remotePicked, remoteScript, cancelRequested, workDirExists>>
    /\ UNCHANGED <<orchVars, attachVars, runVars, stopVars, histVars>>
    /\ UNCHANGED extVars

\* one append operation of the remote side: k more bytes at the end of the log
RemoteAppends ==
    /\ jobState = "RUNNING"
    /\ LogPath \in files
    /\ pc # "done"
    /\ \E k \in 1..MaxChunk :
          /\ Len(data[LogPath]) + k <= MaxLogLen
          /\ data' = [data EXCEPT ![LogPath] =
                         [i \in 1..(Len(data[LogPath]) + k) |-> LogByte(i)]]
    /\ logMtime' = now
    /\ UNCHANGED <<jobState, files, now, remotePicked, remoteScript, cancelRequested, workDirExists>>
    /\ UNCHANGED <<orchVars, attachVars, runVars, stopVars, histVars>>
    /\ UNCHANGED extVars

\* the remote side creates the completion sentinel
RemoteWritesSentinel ==
    /\ jobState = "RUNNING"
    /\ remotePicked
    /\ ExecutedPath \notin files
    /\ files' = files \cup {ExecutedPath}
    /\ UNCHANGED <<jobState, data, logMtime, now, remotePicked, remoteScript,
                   cancelRequested, workDirExists>>
    /\ UNCHANGED <<orchVars, attachVars, runVars, stopVars, histVars>>
    /\ UNCHANGED extVars

----------------------------------------------------------------------------
(* SLURMIdleJob.execute_script, driver.py:156-181                          *)

\* the poll interval of the completion wait (driver.py:292)
WaitBudget == 10

\* mutant of tmp_script_filepath: the body is written in place
tmp_at_canonical_path == ScriptPath

\* `tmp_script_filepath = script_filepath + ".tmp"` (driver.py:172)
tmp_script_filepath == TmpPath

\* the phase ends with outcome o
finish(o) ==
    /\ outcome' = o
    /\ pc' = "done"

waitRest == <<caller, timeout_seconds, wret, N0, evals, sleeps, lastEval, cond>>

\* driver.py:276-279: attach by name; no job found is a system failure
RunAttach ==
    /\ pc = "run_attach"
    /\ job' = attach(job_name, sacct_retcode, sacct_stdout)
    /\ IF job' = "None" THEN finish("AttachFailure")
       ELSE IF job' = "IndexError" THEN finish("Exception")
       ELSE pc' = "run_check_running" /\ outcome' = outcome
    /\ UNCHANGED <<job_name, sacct_retcode, sacct_stdout>>
    /\ UNCHANGED <<srcReadable, script_content, excPending, read_bytes,
                   last_read_timestamp, last_edit_timestamp, sink>>
    /\ UNCHANGED <<waitRest, envVars, stopVars, histVars>>
    /\ UNCHANGED extVars

\* driver.py:280-281: the allocation must be running
RunCheckRunning ==
    /\ pc = "run_check_running"
    /\ IF is_running
         THEN pc' = "exec_read_source" /\ outcome' = outcome
         ELSE finish("NotRunningFailure")
    /\ UNCHANGED <<srcReadable, script_content, excPending, read_bytes,
                   last_read_timestamp, last_edit_timestamp, sink>>
    /\ UNCHANGED <<waitRest, attachVars, envVars, stopVars, histVars>>
    /\ UNCHANGED extVars

\* driver.py:161-170: read the source script; when the read raises, the finally
\* block still runs with script_content = "" and the exception goes on after it
ExecReadSource ==
    /\ pc = "exec_read_source"
    /\ script_content' = IF srcReadable THEN ScriptBody ELSE <<>>
    /\ excPending' = ~srcReadable
    /\ pc' = "exec_open_tmp"
    /\ UNCHANGED <<srcReadable, read_bytes, last_read_timestamp,
                   last_edit_timestamp, sink, outcome>>
    /\ UNCHANGED <<waitRest, attachVars, envVars, stopVars, histVars>>
    /\ UNCHANGED extVars

\* driver.py:173: open(tmp_script_filepath, "w") creates the file or truncates it
ExecOpenTmp ==
    /\ pc = "exec_open_tmp"
    /\ files' = files \cup {tmp_script_filepath}
    /\ data' = [data EXCEPT ![tmp_script_filepath] = <<>>]
    /\ pc' = "exec_write"
    /\ UNCHANGED <<jobState, logMtime, now, remotePicked, remoteScript,
                   cancelRequested, workDirExists>>
    /\ UNCHANGED <<waitRest, attachVars, runVars, stopVars, histVars>>
    /\ UNCHANGED extVars

\* driver.py:174: the body reaches the file piece by piece
ExecWrite ==
    /\ pc = "exec_write"
    /\ IF Len(data[tmp_script_filepath]) < Len(script_content)
         THEN /\ data' = [data EXCEPT ![tmp_script_filepath] =
                            SubSeq(script_content, 1, Len(@) + 1)]
              /\ pc' = pc
         ELSE /\ data' = data
              /\ pc' = "exec_rename"
    /\ UNCHANGED <<jobState, files, logMtime, now, remotePicked, remoteScript,
                   cancelRequested, workDirExists>>
    /\ UNCHANGED <<waitRest, attachVars, runVars, stopVars, histVars>>
    /\ UNCHANGED extVars

\* driver.py:175-181: os.rename replaces the canonical path in one step; a
\* pending exception of the read leaves execute_script and run after it
ExecRename ==
    /\ pc = "exec_rename"
    /\ files' = (files \ {tmp_script_filepath}) \cup {ScriptPath}
    /\ data' = [p \in Paths |->
                  IF p = ScriptPath THEN data[tmp_script_filepath]
                  ELSE IF p = tmp_script_filepath THEN <<>>
                  ELSE data[p]]
    /\ IF excPending THEN finish("Exception")
       ELSE pc' = "run_wait_call" /\ outcome' = outcome
    /\ UNCHANGED <<jobState, logMtime, now, remotePicked, remoteScript,
                   cancelRequested, workDirExists>>
    /\ UNCHANGED <<srcReadable, script_content, excPending, read_bytes,
                   last_read_timestamp, last_edit_timestamp, sink>>
    /\ UNCHANGED <<waitRest, attachVars, stopVars, histVars>>
    /\ UNCHANGED extVars

----------------------------------------------------------------------------
(* GitLabPhases.run: completion wait and log forwarding, driver.py:285-312 *)

\* mutant of log_rest: the seek is dropped, every read starts at byte 0
log_from_start(offset) == data[LogPath]

\* `f.seek(read_bytes); f.read()` (driver.py:300-301, 307-308): the log from
\* the offset to its end
log_rest(offset) == SubSeq(data[LogPath], offset + 1, Len(data[LogPath]))

\* mutant of final_drain_output: the final drain reads only when the
\* modification time differs from the one recorded, as the loop does
final_drain_if_modified ==
    IF logMtime # last_read_timestamp
      THEN SubSeq(data[LogPath], read_bytes + 1, Len(data[LogPath]))
      ELSE <<>>

\* what the final drain prints (driver.py:306-308)
final_drain_output == log_rest(read_bytes)

\* driver.py:292: one more `wait_until(lambda: is_phase_executed(), 10)`
RunWaitCall ==
    /\ pc = "run_wait_call"
    /\ wait_until_enter("run", WaitBudget)
    /\ waitsAfterLeave' = IF is_running THEN waitsAfterLeave ELSE waitsAfterLeave + 1
    /\ UNCHANGED <<loopExit, finalDrainLen, finalRunning, leftAt, sentinelAtLeave>>
    /\ UNCHANGED <<cond, attachVars, envVars, runVars, stopVars>>
    /\ UNCHANGED extVars

\* mutant of RunEvalRunning: the sentinel is tested whatever the state is
RunEvalRunning_SentinelFirst ==
    /\ pc = "wait_eval"
    /\ caller = "run"
    /\ pc' = "wait_eval_isfile"
    /\ UNCHANGED <<evals, lastEval>>
    /\ UNCHANGED <<caller, timeout_seconds, wret, N0, sleeps, cond>>
    /\ UNCHANGED <<attachVars, envVars, runVars, stopVars, histVars>>
    /\ UNCHANGED extVars

\* driver.py:287, left operand: `job.is_running() and ...`
RunEvalRunning ==
    /\ pc = "wait_eval"
    /\ caller = "run"
    /\ IF is_running
         THEN /\ pc' = "wait_eval_isfile"
              /\ UNCHANGED <<evals, lastEval>>
         ELSE /\ pc' = "wait_sleep"
              /\ evals' = evals + 1
              /\ lastEval' = "False"
    /\ UNCHANGED <<caller, timeout_seconds, wret, N0, sleeps, cond>>
    /\ UNCHANGED <<attachVars, envVars, runVars, stopVars, histVars>>
    /\ UNCHANGED extVars

\* driver.py:287, right operand: `... and os.path.isfile(script_executed_file)`
RunEvalFile ==
    /\ pc = "wait_eval_isfile"
    /\ evals' = evals + 1
    /\ lastEval' = PyBool(ExecutedPath \in files)
    /\ IF ExecutedPath \in files
         THEN wait_until_return(TRUE)
         ELSE pc' = "wait_sleep" /\ wret' = wret
    /\ UNCHANGED <<caller, timeout_seconds, N0, sleeps, cond>>
    /\ UNCHANGED <<attachVars, envVars, runVars, stopVars, histVars>>
    /\ UNCHANGED extVars

\* driver.py:292: `while not wait_until(...)`
RunLoopTest ==
    /\ pc = "run_loop_test"
    /\ IF wret = "True"
         THEN pc' = "run_final_drain" /\ loopExit' = "executed"
         ELSE pc' = "run_is_running" /\ loopExit' = loopExit
    /\ UNCHANGED <<waitsAfterLeave, finalDrainLen, finalRunning, leftAt,
                   sentinelAtLeave>>
    /\ UNCHANGED <<waitRest, attachVars, envVars, runVars, stopVars>>
    /\ UNCHANGED extVars

\* mutant of RunIsRunning: the loop has no not-running break
RunIsRunning_NoBreak ==
    /\ pc = "run_is_running"
    /\ pc' = "run_getmtime"
    /\ UNCHANGED <<waitRest, attachVars, envVars, runVars, stopVars, histVars>>
    /\ UNCHANGED extVars

\* driver.py:293-295: `if not job.is_running(): break`
RunIsRunning ==
    /\ pc = "run_is_running"
    /\ IF ~is_running
         THEN pc' = "run_final_drain" /\ loopExit' = "break"
         ELSE pc' = "run_getmtime" /\ loopExit' = loopExit
    /\ UNCHANGED <<waitsAfterLeave, finalDrainLen, finalRunning, leftAt,
                   sentinelAtLeave>>
    /\ UNCHANGED <<waitRest, attachVars, envVars, runVars, stopVars>>
    /\ UNCHANGED extVars

\* driver.py:296-298: os.path.getmtime raises when the log does not exist yet
RunGetmtime ==
    /\ pc = "run_getmtime"
    /\ IF LogPath \notin files
         THEN /\ finish("Exception")
              /\ UNCHANGED <<last_edit_timestamp, last_read_timestamp>>
         ELSE /\ last_edit_timestamp' = logMtime
              /\ outcome' = outcome
              /\ IF logMtime # last_read_timestamp
                   THEN last_read_timestamp' = logMtime /\ pc' = "run_drain"
                   ELSE last_read_timestamp' = last_read_timestamp
                        /\ pc' = "run_wait_call"
    /\ UNCHANGED <<srcReadable, script_content, excPending, read_bytes, sink>>
    /\ UNCHANGED <<waitRest, attachVars, envVars, stopVars, histVars>>
    /\ UNCHANGED extVars

\* driver.py:299-303: forward the log from read_bytes to its end, then
\* `read_bytes = f.tell()`
RunDrain ==
    /\ pc = "run_drain"
    /\ sink' = sink \o log_rest(read_bytes)
    /\ read_bytes' = Len(data[LogPath])
    /\ pc' = "run_wait_call"
    /\ UNCHANGED <<srcReadable, script_content, excPending, last_read_timestamp,
                   last_edit_timestamp, outcome>>
    /\ UNCHANGED <<waitRest, attachVars, envVars, stopVars, histVars>>
    /\ UNCHANGED extVars

\* driver.py:305-309: the final drain; open raises when the log does not exist
RunFinalDrain ==
    /\ pc = "run_final_drain"
    /\ IF LogPath \notin files
         THEN /\ finish("Exception")
              /\ UNCHANGED <<sink, finalDrainLen>>
         ELSE /\ sink' = sink \o final_drain_output
              /\ finalDrainLen' = Len(data[LogPath])
              /\ pc' = "run_final_check"
              /\ outcome' = outcome
    /\ UNCHANGED <<srcReadable, script_content, excPending, read_bytes,
                   last_read_timestamp, last_edit_timestamp>>
    /\ UNCHANGED <<loopExit, waitsAfterLeave, finalRunning, leftAt, sentinelAtLeave>>
    /\ UNCHANGED <<waitRest, attachVars, envVars, stopVars>>
    /\ UNCHANGED extVars

\* mutant of RunFinalCheck: an execution the wait saw completed is a success
\* whatever the last state query observes
RunFinalCheck_TrustsWait ==
    /\ pc = "run_final_check"
    /\ finalRunning' = PyBool(is_running)
    /\ IF is_running \/ loopExit = "executed"
         THEN finish("Success")
         ELSE finish("NotRunningFailure")
    /\ UNCHANGED <<srcReadable, script_content, excPending, read_bytes,
                   last_read_timestamp, last_edit_timestamp, sink>>
    /\ UNCHANGED <<loopExit, waitsAfterLeave, finalDrainLen, leftAt, sentinelAtLeave>>
    /\ UNCHANGED <<waitRest, attachVars, envVars, stopVars>>
    /\ UNCHANGED extVars

\* driver.py:311-312: a last state query decides between returning and the
\* system-failure exit
RunFinalCheck ==
    /\ pc = "run_final_check"
    /\ finalRunning' = PyBool(is_running)
    /\ IF is_running THEN finish("Success") ELSE finish("NotRunningFailure")
    /\ UNCHANGED <<srcReadable, script_content, excPending, read_bytes,
                   last_read_timestamp, last_edit_timestamp, sink>>
    /\ UNCHANGED <<loopExit, waitsAfterLeave, finalDrainLen, leftAt, sentinelAtLeave>>
    /\ UNCHANGED <<waitRest, attachVars, envVars, stopVars>>
    /\ UNCHANGED extVars

\* the name the run phase attaches by, and what the accounting query may print
JobUid == <<"a">>
RunAcctOutputs == {<<>>, << <<"101", JobUid, [i \in 1..StampLen |-> 0]>> >>}

\* `run <source> <phase>` against a workspace in which nothing was dispatched yet
Init ==
    /\ pc = "run_attach"
    /\ WaitIdle
    /\ job_name = JobUid
    /\ sacct_retcode \in {0, 1}
    /\ sacct_stdout \in RunAcctOutputs
    /\ job = "unset"
    /\ jobState \in {"PENDING", "RUNNING"}
    /\ files = {}
    /\ data = [p \in Paths |-> <<>>]
    /\ logMtime = 0
    /\ now = 1
    /\ remotePicked = FALSE
    /\ remoteScript = <<>>
    /\ cancelRequested = FALSE
    /\ workDirExists = TRUE
    /\ srcReadable \in BOOLEAN
    /\ script_content = <<>>
    /\ excPending = FALSE
    /\ read_bytes = 0
    /\ last_read_timestamp = 0
    /\ last_edit_timestamp = 0
    /\ sink = <<>>
    /\ outcome = "none"
    /\ StopIdle
    /\ HistIdle
    /\ ExtIdle

Next ==
    \/ RunAttach \/ RunCheckRunning
    \/ ExecReadSource \/ ExecOpenTmp \/ ExecWrite \/ ExecRename
    \/ RunWaitCall \/ WaitTest \/ RunEvalRunning \/ RunEvalFile \/ WaitSleep
    \/ RunLoopTest \/ RunIsRunning \/ RunGetmtime \/ RunDrain
    \/ RunFinalDrain \/ RunFinalCheck
    \/ JobStarts \/ JobLeavesRunning \/ Tick
    \/ RemotePicksUp \/ RemoteCreatesLog \/ RemoteAppends \/ RemoteWritesSentinel

Spec == Init /\ [][Next]_vars

----------------------------------------------------------------------------
(* The run phase under fair scheduling                                     *)

\* one step of the single-threaded driver process (driver.py:272-312)
RunStep ==
    \/ RunAttach \/ RunCheckRunning
    \/ ExecReadSource \/ ExecOpenTmp \/ ExecWrite \/ ExecRename
    \/ RunWaitCall \/ WaitTest \/ RunEvalRunning \/ RunEvalFile \/ WaitSleep
    \/ RunLoopTest \/ RunIsRunning \/ RunGetmtime \/ RunDrain
    \/ RunFinalDrain \/ RunFinalCheck

\* what ends an execution on the remote side: the script's sentinel is written,
\* or the allocation leaves RUNNING
RemoteEnds == RemoteWritesSentinel \/ JobLeavesRunning

\* the driver process keeps running: its system calls and sleeps return
DriverFair == WF_vars(RunStep)

\* the remote side eventually writes the sentinel or leaves RUNNING
RemoteFair == WF_vars(RemoteEnds)

SpecRunFair == Spec /\ DriverFair /\ RemoteFair

\* the driver alone is scheduled fairly; the remote side may do nothing for ever
SpecRunDriverFair == Spec /\ DriverFair

----------------------------------------------------------------------------
(* Successive `run` invocations for one script name, driver.py:340-369     *)
(*                                                                         *)
(* Every invocation is a new process working in the same workspace.        *)
(* Neither execute_script (driver.py:156-181) nor run (driver.py:272-312)  *)
(* removes `<script>.executed` or `<script>.log`, so what the earlier      *)
(* execution left there is what the next one finds.                        *)

\* ---- bounds of the model
MaxExecutions == 2      \* most executions of the same script name

\* driver.py:345-350, 369 after a `run` that returned: the process exits with 0 and
\* `run` is invoked again with the same phase name; the locals of the new
\* process start afresh, the workspace and the allocation are as they were
RunAgain ==
    /\ pc = "done"
    /\ outcome = "Success"
    /\ execution < MaxExecutions
    /\ execution' = execution + 1
    /\ staleSentinel' = (ExecutedPath \in files)
    /\ staleLen' = Len(data[LogPath])
    /\ pc' = "run_attach"
    /\ caller' = "none"
    /\ timeout_seconds' = 0
    /\ N0' = 0
    /\ evals' = 0
    /\ sleeps' = 0
    /\ lastEval' = "none"
    /\ wret' = "none"
    /\ job' = "unset"
    /\ script_content' = <<>>
    /\ excPending' = FALSE
    /\ read_bytes' = 0
    /\ last_read_timestamp' = 0
    /\ last_edit_timestamp' = 0
    /\ sink' = <<>>
    /\ outcome' = "none"
    /\ loopExit' = "none"
    /\ waitsAfterLeave' = 0
    /\ finalDrainLen' = -1
    /\ finalRunning' = "none"
    /\ UNCHANGED <<cond, srcReadable, leftAt, sentinelAtLeave>>
    /\ UNCHANGED <<job_name, sacct_retcode, sacct_stdout>>
    /\ UNCHANGED <<envVars, stopVars>>
    /\ UNCHANGED <<renderVars, prepVars, cleanVars, decodeVars>>

NextRerun == Next \/ RunAgain

SpecRerun == Init /\ [][NextRerun]_vars

----------------------------------------------------------------------------
(* SLURMIdleJob.mark_stop and try_stop, driver.py:183-197                  *)

\* ---- bounds of the model
MaxStopTimeout == 3     \* largest SLURM_JOB_STOP_TIMEOUT_SECONDS_BEFORE_CANCEL

\* driver.py:191-194: mark_stop writes the stop sentinel, then the bounded wait
\* for the allocation to leave RUNNING starts; when the write raises (the
\* workspace is gone) control goes to the finally block
StopMark ==
    /\ pc = "stop_mark"
    /\ IF workDirExists
         THEN /\ files' = files \cup {ExitPath}
              /\ wait_until_enter("try_stop", stop_timeout)
              /\ excPending' = excPending
         ELSE /\ files' = files
              /\ excPending' = TRUE
              /\ pc' = "stop_finally"
              /\ UNCHANGED <<caller, timeout_seconds, wret, N0, evals, sleeps, lastEval>>
    /\ UNCHANGED <<jobState, data, logMtime, now, remotePicked, remoteScript,
                   cancelRequested, workDirExists>>
    /\ UNCHANGED <<srcReadable, script_content, read_bytes, last_read_timestamp,
                   last_edit_timestamp, sink, outcome>>
    /\ UNCHANGED <<cond, attachVars, stopVars, histVars>>
    /\ UNCHANGED extVars

\* mutant of StopFinally: the result of wait_until decides, without a fresh
\* state query
StopFinally_TrustsWait ==
    /\ pc = "stop_finally"
    /\ recheck' = PyBool(wret = "False")
    /\ IF wret = "False"
         THEN pc' = "stop_scancel" /\ outcome' = outcome
         ELSE finish(IF excPending THEN "Exception" ELSE "Stopped")
    /\ UNCHANGED <<srcReadable, script_content, excPending, read_bytes,
                   last_read_timestamp, last_edit_timestamp, sink>>
    /\ UNCHANGED <<stop_timeout, cancelCalls>>
    /\ UNCHANGED <<waitRest, attachVars, envVars, histVars>>
    /\ UNCHANGED extVars

\* driver.py:195-196: `finally: if self.is_running():`
StopFinally ==
    /\ pc = "stop_finally"
    /\ recheck' = PyBool(is_running)
    /\ IF is_running
         THEN pc' = "stop_scancel" /\ outcome' = outcome
         ELSE finish(IF excPending THEN "Exception" ELSE "Stopped")
    /\ UNCHANGED <<srcReadable, script_content, excPending, read_bytes,
                   last_read_timestamp, last_edit_timestamp, sink>>
    /\ UNCHANGED <<stop_timeout, cancelCalls>>
    /\ UNCHANGED <<waitRest, attachVars, envVars, histVars>>
    /\ UNCHANGED extVars

\* driver.py:197: SLURMInterface.scancel(self.id); its result is dropped
StopScancel ==
    /\ pc = "stop_scancel"
    /\ cancelCalls' = cancelCalls + 1
    /\ cancelRequested' = TRUE
    /\ finish(IF excPending THEN "Exception" ELSE "Stopped")
    /\ UNCHANGED <<jobState, files, data, logMtime, now, remotePicked, remoteScript,
                   workDirExists>>
    /\ UNCHANGED <<srcReadable, script_content, excPending, read_bytes,
                   last_read_timestamp, last_edit_timestamp, sink>>
    /\ UNCHANGED <<stop_timeout, recheck>>
    /\ UNCHANGED <<waitRest, attachVars, histVars>>
    /\ UNCHANGED extVars

\* try_stop on an attached allocation in any state, with any budget
InitStop ==
    /\ pc = "stop_mark"
    /\ WaitIdle
    /\ job_name = JobUid
    /\ sacct_retcode = 0
    /\ sacct_stdout = <<>>
    /\ job = "101"
    /\ jobState \in {"PENDING", "RUNNING", "CANCELLED"}
    /\ files = {}
    /\ data = [p \in Paths |-> <<>>]
    /\ logMtime = 0
    /\ now = 1
    /\ remotePicked = FALSE
    /\ remoteScript = <<>>
    /\ cancelRequested = FALSE
    /\ workDirExists \in BOOLEAN
    /\ RunIdle
    /\ stop_timeout \in 0..MaxStopTimeout
    /\ cancelCalls = 0
    /\ recheck = "none"
    /\ HistIdle
    /\ ExtIdle

NextStop ==
    \/ StopMark \/ WaitTest \/ WaitEval \/ WaitSleep \/ StopFinally \/ StopScancel
    \/ JobStarts \/ JobLeavesRunning

SpecStop == InitStop /\ [][NextStop]_vars

\* wait_until(predicate, n) called with any n in 0..MaxWaitTimeout
InitWait ==
    /\ pc = "wait_test"
    /\ caller = "pure"
    /\ timeout_seconds \in 0..MaxWaitTimeout
    /\ N0 = timeout_seconds
    /\ evals = 0
    /\ sleeps = 0
    /\ lastEval = "none"
    /\ wret = "none"
    /\ cond \in BOOLEAN
    /\ AttachIdle
    /\ EnvIdle
    /\ RunIdle
    /\ StopIdle
    /\ HistIdle
    /\ ExtIdle

NextWait == WaitTest \/ WaitEval \/ WaitSleep \/ PredicateChanges

SpecWait == InitWait /\ [][NextWait]_vars

----------------------------------------------------------------------------
(* wait_until with a timeout of either sign                                *)
(*                                                                         *)
(* wait_until takes any int.  try_stop passes                              *)
(* `int(get_env("SLURM_JOB_STOP_TIMEOUT_SECONDS_BEFORE_CANCEL", 30))`      *)
(* (driver.py:192-194) and prepare passes                                  *)
(* `int(get_env("SLURM_JOB_START_TIMEOUT_SECONDS", 1200))`                 *)
(* (driver.py:264-266): int() accepts "-1" as it accepts "30", so the      *)
(* timeout is whatever integer the environment holds.  Python integers do  *)
(* not wrap: a negative timeout_seconds only moves away from 0.            *)

\* ---- bounds of the model
MaxNegTimeout == 2      \* the most negative timeout is -MaxNegTimeout
MaxNegSleeps == 4       \* sleeps followed when the timeout is negative

\* driver.py:18-19 as WaitSleep; below 0 the counter decreases without end, and
\* the model follows it for MaxNegSleeps sleeps
WaitSleepBounded ==
    /\ timeout_seconds > 0 \/ sleeps < MaxNegSleeps
    /\ WaitSleep

\* wait_until(predicate, n) called with any n in -MaxNegTimeout..MaxWaitTimeout
InitWaitSigned ==
    /\ pc = "wait_test"
    /\ caller = "pure"
    /\ timeout_seconds \in (-MaxNegTimeout)..MaxWaitTimeout
    /\ N0 = timeout_seconds
    /\ evals = 0
    /\ sleeps = 0
    /\ lastEval = "none"
    /\ wret = "none"
    /\ cond \in BOOLEAN
    /\ AttachIdle
    /\ EnvIdle
    /\ RunIdle
    /\ StopIdle
    /\ HistIdle
    /\ ExtIdle

\* try_stop on an attached allocation with the stop timeout the environment
\* holds, of either sign (driver.py:192-193)
InitStopSigned ==
    /\ pc = "stop_mark"
    /\ WaitIdle
    /\ job_name = JobUid
    /\ sacct_retcode = 0
    /\ sacct_stdout = <<>>
    /\ job = "101"
    /\ jobState \in {"PENDING", "RUNNING", "CANCELLED"}
    /\ files = {}
    /\ data = [p \in Paths |-> <<>>]
    /\ logMtime = 0
    /\ now = 1
    /\ remotePicked = FALSE
    /\ remoteScript = <<>>
    /\ cancelRequested = FALSE
    /\ workDirExists \in BOOLEAN
    /\ RunIdle
    /\ stop_timeout \in (-MaxNegTimeout)..MaxStopTimeout
    /\ cancelCalls = 0
    /\ recheck = "none"
    /\ HistIdle
    /\ ExtIdle

InitSigned == InitWaitSigned \/ InitStopSigned

NextSigned ==
    \/ WaitTest \/ WaitEval \/ WaitSleepBounded \/ PredicateChanges
    \/ StopMark \/ StopFinally \/ StopScancel
    \/ JobStarts \/ JobLeavesRunning

\* one step of the driver process
SignedStep ==
    \/ WaitTest \/ WaitEval \/ WaitSleepBounded
    \/ StopMark \/ StopFinally \/ StopScancel

\* the process keeps running: every query and every sleep(1) returns; nothing
\* is assumed about the predicate or the allocation
SignedFair == WF_vars(SignedStep)

SpecWaitSigned == InitSigned /\ [][NextSigned]_vars /\ SignedFair

----------------------------------------------------------------------------
(* SLURMJobRequestData, slurm_interface.py:124-204                         *)
(*                                                                         *)
(* A keyword-argument list is a function from the keyword names passed to  *)
(* their values; "None" is Python's None, "True" and "False" its booleans. *)
(* A line of the rendered file is the sequence of its tokens.              *)

\* the parameters of __init__ after self, in order (slurm_interface.py:128-148)
InitParameters ==
    <<"job_name", "nodes", "mem", "mem_bind", "mem_per_cpu", "cpus_per_task",
      "n_tasks", "time_limit", "time_min", "exclusive", "network", "contiguous",
      "partition", "power", "priority", "nice", "comment", "chdir", "export",
      "stdout_file", "stderr_file">>
ParameterNames == {InitParameters[i] : i \in 1..Len(InitParameters)}
BoolParameters == {"exclusive", "contiguous"}

\* the default value of a parameter (slurm_interface.py:129-148)
default_value(p) == IF p \in BoolParameters THEN "False" ELSE "None"

\* the keywords GitLabPhases.prepare passes (driver.py:232-256)
PrepareKeywords == ParameterNames \cup {"account", "qos"}

\* binding the call SLURMJobRequestData(**kw) to __init__'s parameters: a
\* keyword that is no parameter, or a missing job_name, raises TypeError
call_init(kw) ==
    IF DOMAIN kw \subseteq ParameterNames /\ "job_name" \in DOMAIN kw
      THEN "ok" ELSE "TypeError"

\* the attributes __init__ sets (slurm_interface.py:150-170)
init_attributes(kw) ==
    [p \in ParameterNames |-> IF p \in DOMAIN kw THEN kw[p] ELSE default_value(p)]

\* the flag get_cli_parameters renders an attribute with
\* (slurm_interface.py:174-194)
flag(p) ==
    CASE p = "job_name" -> "--job-name"
      [] p = "nodes" -> "--nodes"
      [] p = "mem" -> "--mem"
      [] p = "mem_bind" -> "--mem-bind"
      [] p = "mem_per_cpu" -> "--mem-per-cpu"
      [] p = "cpus_per_task" -> "--cpus-per-task"
      [] p = "n_tasks" -> "--ntasks"
      [] p = "time_limit" -> "--time"
      [] p = "time_min" -> "--time-min"
      [] p = "exclusive" -> "--exclusive"
      [] p = "network" -> "--network"
      [] p = "contiguous" -> "--contiguous"
      [] p = "partition" -> "--partition"
      [] p = "power" -> "--power"
      [] p = "priority" -> "--priority"
      [] p = "nice" -> "--nice"
      [] p = "comment" -> "--comment"
      [] p = "chdir" -> "--chdir"
      [] p = "export" -> "--export"
      [] p = "stdout_file" -> "--output"
      [] p = "stderr_file" -> "--error"

\* one entry of the list `parameters` (slurm_interface.py:173-195); <<>> stands
\* for the entry None
cli_parameter(self, p) ==
    IF p = "job_name" THEN <<flag(p), "=", self[p]>>
    ELSE IF p \in BoolParameters
      THEN IF self[p] = "True" THEN <<flag(p)>> ELSE <<>>
    ELSE IF self[p] = "None" THEN <<>>
    ELSE IF p = "comment" THEN <<flag(p), "=", "\"", self[p], "\"">>
    ELSE <<flag(p), "=", self[p]>>

\* SLURMJobRequestData.get_cli_parameters (slurm_interface.py:172-196)
get_cli_parameters(self) ==
    SelectSeq([i \in 1..Len(InitParameters) |-> cli_parameter(self, InitParameters[i])],
              LAMBDA x : x # <<>>)

\* SLURMJobRequestData.to_sbatch_file_string (slurm_interface.py:198-204)
to_sbatch_file_string(self, script_lines) ==
    LET parameters == get_cli_parameters(self) IN
    << <<"#!/bin/bash">>, <<>> >>
        \o [i \in 1..Len(parameters) |-> <<"#SBATCH">> \o parameters[i]]
        \o << <<>> >>
        \o script_lines

\* the script_lines create passes (driver.py:114)
IdleInclusion == << <<".", "idle_script.sh">> >>

\* the optional fields whose presence varies, and the two ways a caller passes
\* a request: prepare passes every keyword, None for a field that is not
\* configured; a sparse caller passes the configured fields only
VariedFields == {"nodes", "exclusive", "network", "contiguous", "partition",
                 "account", "qos"}
PrepareAlwaysSet == {"job_name", "time_limit", "comment", "chdir", "export",
                     "stdout_file", "stderr_file"}
Styles == {"prepare", "sparse"}

\* the keyword arguments of a request whose configured fields are P
request_kwargs(P, style) ==
    LET passed == IF style = "prepare" THEN PrepareKeywords
                  ELSE {"job_name"} \cup P IN
    [p \in passed |->
        IF p \in BoolParameters THEN PyBool(p \in P)
        ELSE IF p \in P \/ p \in PrepareAlwaysSet THEN p
        ELSE "None"]

\* driver.py:232-256: the constructor call
RequestInit ==
    /\ pc = "request_init"
    /\ ctor' = call_init(kwargs)
    /\ IF call_init(kwargs) = "ok"
         THEN request' = init_attributes(kwargs) /\ pc' = "request_render"
         ELSE request' = request /\ pc' = "request_failed"
    /\ UNCHANGED <<kwargs, artifact>>
    /\ UNCHANGED <<waitRest, attachVars, envVars, runVars, stopVars, histVars>>
    /\ UNCHANGED <<prepVars, cleanVars, decodeVars>>
    /\ UNCHANGED rerunVars

\* driver.py:113-115: the content create writes to the batch file
RequestRender ==
    /\ pc = "request_render"
    /\ artifact' = to_sbatch_file_string(request, IdleInclusion)
    /\ pc' = "request_done"
    /\ UNCHANGED <<kwargs, ctor, request>>
    /\ UNCHANGED <<waitRest, attachVars, envVars, runVars, stopVars, histVars>>
    /\ UNCHANGED <<prepVars, cleanVars, decodeVars>>
    /\ UNCHANGED rerunVars

\* a request with any set of configured fields, passed in either way
InitRender ==
    /\ pc = "request_init"
    /\ WaitIdle
    /\ AttachIdle
    /\ EnvIdle
    /\ RunIdle
    /\ StopIdle
    /\ HistIdle
    /\ kwargs \in {request_kwargs(P, st) : P \in SUBSET VariedFields, st \in Styles}
    /\ ctor = "unset"
    /\ request = <<>>
    /\ artifact = <<>>
    /\ PrepIdle
    /\ CleanIdle
    /\ DecodeIdle
    /\ RerunIdle

NextRender == RequestInit \/ RequestRender

SpecRender == InitRender /\ [][NextRender]_vars

----------------------------------------------------------------------------
(* SLURMIdleJob.create and GitLabPhases.prepare, driver.py:93-128, 257-270 *)
(*                                                                         *)
(* The phase is followed from the call of create on, for a request the     *)
(* constructor accepted.  The scheduler accepts a submission whose sbatch  *)
(* ends with status 0; the new job is PENDING in the scheduler at once,    *)
(* and the accounting database answers for its id some time later.         *)

\* ---- bounds of the model
MaxStartTimeout == 3    \* largest SLURM_JOB_START_TIMEOUT_SECONDS

\* the budget of the wait for the new id (driver.py:127)
CreateTimeout == 120

\* mutant of payload_usable: the readability test is missing
payload_usable_NoReadCheck(p) == "isfile" \in p /\ "x" \in p

\* the three tests of driver.py:101-109
payload_usable(p) == "isfile" \in p /\ "x" \in p /\ "r" \in p

\* SLURMInterface.sbatch (slurm_interface.py:268-279): no id when sbatch
\* failed, else the first ";"-separated field of the first line printed
sbatch(retcode, stdout) == IF retcode # 0 THEN "None" ELSE Head(stdout)

\* the request prepare hands to create
PreparedKwargs == request_kwargs({"nodes", "exclusive"}, "sparse")

\* driver.py:99-109: create returns None when idle_script.sh is not a file, not
\* executable or not readable
CreateCheckPayload ==
    /\ pc = "create_check"
    /\ IF payload_usable(payload)
         THEN pc' = "create_write" /\ job' = job
         ELSE pc' = "prep_job_none" /\ job' = "None"
    /\ UNCHANGED <<job_name, sacct_retcode, sacct_stdout>>
    /\ UNCHANGED <<waitRest, envVars, runVars, stopVars, histVars, extVars>>

\* driver.py:111-117: write the rendered request to the batch file; open raises
\* when the workspace directory does not exist
CreateWriteBatch ==
    /\ pc = "create_write"
    /\ IF workDirExists
         THEN /\ files' = files \cup {BatchPath}
              /\ data' = [data EXCEPT ![BatchPath] =
                             to_sbatch_file_string(request, IdleInclusion)]
              /\ pc' = "create_sbatch"
              /\ outcome' = outcome
         ELSE /\ UNCHANGED <<files, data>>
              /\ finish("Exception")
    /\ UNCHANGED <<jobState, logMtime, now, remotePicked, remoteScript,
                   cancelRequested, workDirExists>>
    /\ UNCHANGED <<srcReadable, script_content, excPending, read_bytes,
                   last_read_timestamp, last_edit_timestamp, sink>>
    /\ UNCHANGED <<waitRest, attachVars, stopVars, histVars, extVars>>

\* driver.py:124-127: submit the batch file, then start the bounded wait for
\* the id to become queryable
CreateSbatch ==
    /\ pc = "create_sbatch"
    /\ sbatchCalls' = sbatchCalls + 1
    /\ job_id' = sbatch(sbatch_retcode, sbatch_stdout)
    /\ jobState' = IF sbatch_retcode = 0 THEN "PENDING" ELSE jobState
    /\ wait_until_enter("create", CreateTimeout)
    /\ UNCHANGED <<files, data, logMtime, now, remotePicked, remoteScript,
                   cancelRequested, workDirExists>>
    /\ UNCHANGED <<payload, sbatch_retcode, sbatch_stdout, registered,
                   timeout_secs, existsSeen, startSeen>>
    /\ UNCHANGED <<cond, attachVars, runVars, stopVars, histVars>>
    /\ UNCHANGED <<renderVars, cleanVars, decodeVars>>
    /\ UNCHANGED rerunVars

\* mutant of CreateReturn: a submission that returned an id gives a handle
\* without a confirming query
CreateReturn_TrustsSubmit ==
    /\ pc = "create_return"
    /\ existsSeen' = PyBool(exists(job_id))
    /\ job' = IF job_id # "None" THEN job_id ELSE "None"
    /\ pc' = "prep_job_none"
    /\ UNCHANGED <<job_name, sacct_retcode, sacct_stdout>>
    /\ UNCHANGED <<payload, sbatch_retcode, sbatch_stdout, job_id, registered,
                   sbatchCalls, timeout_secs, startSeen>>
    /\ UNCHANGED <<waitRest, envVars, runVars, stopVars, histVars>>
    /\ UNCHANGED <<renderVars, cleanVars, decodeVars>>
    /\ UNCHANGED rerunVars

\* driver.py:128: `return SLURMIdleJob(job_id, work_dir) if
\* SLURMInterface.exists(job_id) else None`
CreateReturn ==
    /\ pc = "create_return"
    /\ existsSeen' = PyBool(exists(job_id))
    /\ job' = IF exists(job_id) THEN job_id ELSE "None"
    /\ pc' = "prep_job_none"
    /\ UNCHANGED <<job_name, sacct_retcode, sacct_stdout>>
    /\ UNCHANGED <<payload, sbatch_retcode, sbatch_stdout, job_id, registered,
                   sbatchCalls, timeout_secs, startSeen>>
    /\ UNCHANGED <<waitRest, envVars, runVars, stopVars, histVars>>
    /\ UNCHANGED <<renderVars, cleanVars, decodeVars>>
    /\ UNCHANGED rerunVars

\* driver.py:261-266: no job is a system failure; else the bounded wait for the
\* job to run starts
PrepJobNone ==
    /\ pc = "prep_job_none"
    /\ IF job = "None"
         THEN /\ finish("CreateFailure")
              /\ UNCHANGED <<caller, timeout_seconds, wret, N0, evals, sleeps, lastEval>>
         ELSE /\ wait_until_enter("prepare", timeout_secs)
              /\ outcome' = outcome
    /\ UNCHANGED <<srcReadable, script_content, excPending, read_bytes,
                   last_read_timestamp, last_edit_timestamp, sink>>
    /\ UNCHANGED <<cond, attachVars, envVars, stopVars, histVars, extVars>>

\* driver.py:267: `if not job.is_running():`; a running job ends the phase
PrepCheckRunning ==
    /\ pc = "prep_check"
    /\ startSeen' = PyBool(is_running)
    /\ IF ~is_running
         THEN pc' = "prep_mark_stop" /\ outcome' = outcome
         ELSE finish("Prepared")
    /\ UNCHANGED <<srcReadable, script_content, excPending, read_bytes,
                   last_read_timestamp, last_edit_timestamp, sink>>
    /\ UNCHANGED <<payload, sbatch_retcode, sbatch_stdout, job_id, registered,
                   sbatchCalls, timeout_secs, existsSeen>>
    /\ UNCHANGED <<waitRest, attachVars, envVars, stopVars, histVars>>
    /\ UNCHANGED <<renderVars, cleanVars, decodeVars>>
    /\ UNCHANGED rerunVars

\* driver.py:268: job.mark_stop() (driver.py:183-187); the write raises when
\* the workspace directory does not exist, and the exception leaves prepare
PrepMarkStop ==
    /\ pc = "prep_mark_stop"
    /\ IF workDirExists
         THEN /\ files' = files \cup {ExitPath}
              /\ pc' = "prep_scancel"
              /\ outcome' = outcome
         ELSE /\ files' = files
              /\ finish("Exception")
    /\ UNCHANGED <<jobState, data, logMtime, now, remotePicked, remoteScript,
                   cancelRequested, workDirExists>>
    /\ UNCHANGED <<srcReadable, script_content, excPending, read_bytes,
                   last_read_timestamp, last_edit_timestamp, sink>>
    /\ UNCHANGED <<waitRest, attachVars, stopVars, histVars, extVars>>

\* driver.py:269-270: cancel the job, then the system-failure exit
PrepScancel ==
    /\ pc = "prep_scancel"
    /\ cancelCalls' = cancelCalls + 1
    /\ cancelRequested' = TRUE
    /\ finish("StartFailure")
    /\ UNCHANGED <<jobState, files, data, logMtime, now, remotePicked, remoteScript,
                   workDirExists>>
    /\ UNCHANGED <<srcReadable, script_content, excPending, read_bytes,
                   last_read_timestamp, last_edit_timestamp, sink>>
    /\ UNCHANGED <<stop_timeout, recheck>>
    /\ UNCHANGED <<waitRest, attachVars, histVars, extVars>>

\* the accounting database learns of the submitted job
AcctRegisters ==
    /\ jobState # "NONE"
    /\ pc # "done"
    /\ Head(sbatch_stdout) \notin registered
    /\ registered' = registered \cup {Head(sbatch_stdout)}
    /\ UNCHANGED <<payload, sbatch_retcode, sbatch_stdout, job_id, sbatchCalls,
                   timeout_secs, existsSeen, startSeen>>
    /\ UNCHANGED <<orchVars, attachVars, envVars, runVars, stopVars, histVars>>
    /\ UNCHANGED <<renderVars, cleanVars, decodeVars>>
    /\ UNCHANGED rerunVars

\* the workspace directory is removed under the running phase
WorkspaceRemoved ==
    /\ workDirExists
    /\ pc # "done"
    /\ workDirExists' = FALSE
    /\ files' = {}
    /\ data' = [p \in Paths |-> <<>>]
    /\ UNCHANGED <<jobState, logMtime, now, remotePicked, remoteScript,
                   cancelRequested>>
    /\ UNCHANGED <<orchVars, attachVars, runVars, stopVars, histVars, extVars>>

\* prepare from the call of create on: any condition of idle_script.sh, any
\* result of sbatch, any start timeout
InitPrepare ==
    /\ pc = "create_check"
    /\ WaitIdle
    /\ AttachIdle
    /\ jobState = "NONE"
    /\ files = {}
    /\ data = [p \in Paths |-> <<>>]
    /\ logMtime = 0
    /\ now = 1
    /\ remotePicked = FALSE
    /\ remoteScript = <<>>
    /\ cancelRequested = FALSE
    /\ workDirExists \in BOOLEAN
    /\ RunIdle
    /\ StopIdle
    /\ HistIdle
    /\ kwargs = PreparedKwargs
    /\ ctor = "ok"
    /\ request = init_attributes(PreparedKwargs)
    /\ artifact = <<>>
    /\ payload \in SUBSET {"isfile", "x", "r"}
    /\ sbatch_retcode \in {0, 1}
    /\ sbatch_stdout \in {<<"101">>, <<"101", "cluster">>}
    /\ job_id = "unset"
    /\ registered = {}
    /\ sbatchCalls = 0
    /\ timeout_secs \in 0..MaxStartTimeout
    /\ existsSeen = "none"
    /\ startSeen = "none"
    /\ CleanIdle
    /\ DecodeIdle
    /\ RerunIdle

NextPrepare ==
    \/ CreateCheckPayload \/ CreateWriteBatch \/ CreateSbatch
    \/ WaitTest \/ WaitEval \/ WaitSleep
    \/ CreateReturn \/ PrepJobNone \/ PrepCheckRunning
    \/ PrepMarkStop \/ PrepScancel
    \/ AcctRegisters \/ JobStarts \/ JobLeavesRunning \/ WorkspaceRemoved

SpecPrepare == InitPrepare /\ [][NextPrepare]_vars

----------------------------------------------------------------------------
(* SLURMIdleJob.clean_chdir, driver.py:199-204                             *)

\* ---- bounds of the model
MaxCleanCalls == 2      \* most calls of clean_chdir in a row

\* the values CI_KEEP_BUILD_DIR is given; "None" when it is not set
KeepValues == {"None", "", "1", "true", "false"}

\* Python's truth value of what get_env returned (driver.py:200)
truthy(v) == v \notin {"None", ""}

\* mutant of rmtree_guard: the directory is removed without testing for it
rmtree_unguarded(dirExists) == TRUE

\* `os.path.exists(self.work_dir) and os.path.isdir(self.work_dir)`
\* (driver.py:203)
rmtree_guard(dirExists) == dirExists

\* one call of clean_chdir; shutil.rmtree raises when its argument does not
\* exist
CleanChdir ==
    /\ pc = "clean_chdir"
    /\ cleanCalls' = cleanCalls + 1
    /\ dirAtCall' = Append(dirAtCall, workDirExists)
    /\ filesAtCall' = files
    /\ IF truthy(keep_env)
         THEN /\ UNCHANGED <<workDirExists, files, data, outcome>>
              /\ pc' = IF cleanCalls + 1 < MaxCleanCalls THEN pc ELSE "clean_done"
         ELSE IF ~rmtree_guard(workDirExists)
         THEN /\ UNCHANGED <<workDirExists, files, data, outcome>>
              /\ pc' = IF cleanCalls + 1 < MaxCleanCalls THEN pc ELSE "clean_done"
         ELSE IF workDirExists
         THEN /\ workDirExists' = FALSE
              /\ files' = {}
              /\ data' = [p \in Paths |-> <<>>]
              /\ outcome' = outcome
              /\ pc' = IF cleanCalls + 1 < MaxCleanCalls THEN pc ELSE "clean_done"
         ELSE /\ UNCHANGED <<workDirExists, files, data>>
              /\ finish("Exception")
    /\ UNCHANGED <<jobState, logMtime, now, remotePicked, remoteScript,
                   cancelRequested>>
    /\ UNCHANGED <<srcReadable, script_content, excPending, read_bytes,
                   last_read_timestamp, last_edit_timestamp, sink>>
    /\ UNCHANGED keep_env
    /\ UNCHANGED <<waitRest, attachVars, stopVars, histVars>>
    /\ UNCHANGED <<renderVars, prepVars, decodeVars>>
    /\ UNCHANGED rerunVars

\* clean_chdir called on a handle whose workspace exists, with any files in
\* it, or does not exist, under any value of CI_KEEP_BUILD_DIR
InitClean ==
    /\ pc = "clean_chdir"
    /\ WaitIdle
    /\ AttachIdle
    /\ jobState = "CANCELLED"
    /\ workDirExists \in BOOLEAN
    /\ files \in (IF workDirExists THEN SUBSET Paths ELSE {{}})
    /\ data = [p \in Paths |-> <<>>]
    /\ logMtime = 0
    /\ now = 1
    /\ remotePicked = FALSE
    /\ remoteScript = <<>>
    /\ cancelRequested = FALSE
    /\ RunIdle
    /\ StopIdle
    /\ HistIdle
    /\ RenderIdle
    /\ PrepIdle
    /\ keep_env \in KeepValues
    /\ cleanCalls = 0
    /\ dirAtCall = <<>>
    /\ filesAtCall = {}
    /\ DecodeIdle
    /\ RerunIdle

NextClean == CleanChdir

SpecClean == InitClean /\ [][NextClean]_vars

----------------------------------------------------------------------------
(* GitLabPhases.run_cleanup_file_variables after its run and attach:       *)
(* `job.try_stop()` then `job.clean_chdir()`, driver.py:325-327            *)

\* driver.py:327 after try_stop returned at driver.py:326: clean_chdir
\* (driver.py:199-204) runs at once, whatever state the allocation is in; an
\* exception that left try_stop ends the phase before this line
TeardownCleanChdir ==
    /\ pc = "done"
    /\ outcome = "Stopped"
    /\ cleanCalls' = cleanCalls + 1
    /\ dirAtCall' = Append(dirAtCall, workDirExists)
    /\ filesAtCall' = files
    /\ IF truthy(keep_env) \/ ~rmtree_guard(workDirExists)
         THEN /\ UNCHANGED <<workDirExists, files, data>>
              /\ outcome' = "Cleaned"
              /\ pc' = "teardown_done"
         ELSE IF workDirExists
         THEN /\ workDirExists' = FALSE
              /\ files' = {}
              /\ data' = [p \in Paths |-> <<>>]
              /\ outcome' = "Cleaned"
              /\ pc' = "teardown_done"
         ELSE /\ UNCHANGED <<workDirExists, files, data>>
              /\ outcome' = "Exception"
              /\ pc' = "teardown_done"
    /\ UNCHANGED <<jobState, logMtime, now, remotePicked, remoteScript,
                   cancelRequested>>
    /\ UNCHANGED <<srcReadable, script_content, excPending, read_bytes,
                   last_read_timestamp, last_edit_timestamp, sink>>
    /\ UNCHANGED keep_env
    /\ UNCHANGED <<waitRest, attachVars, stopVars, histVars>>
    /\ UNCHANGED <<renderVars, prepVars, decodeVars, rerunVars>>

\* the teardown of a phase whose run returned: the allocation was RUNNING at
\* the last query of run and may have left RUNNING since; the workspace holds
\* what the execution left in it, or was removed from outside
InitTeardown ==
    /\ pc = "stop_mark"
    /\ WaitIdle
    /\ job_name = JobUid
    /\ sacct_retcode = 0
    /\ sacct_stdout = <<>>
    /\ job = "101"
    /\ jobState \in {"RUNNING"} \cup TerminalStates
    /\ workDirExists \in BOOLEAN
    /\ files = IF workDirExists THEN {ScriptPath, LogPath, ExecutedPath} ELSE {}
    /\ data = [p \in Paths |-> <<>>]
    /\ logMtime = 0
    /\ now = 1
    /\ remotePicked = TRUE
    /\ remoteScript = <<>>
    /\ cancelRequested = FALSE
    /\ RunIdle
    /\ stop_timeout \in 0..MaxStopTimeout
    /\ cancelCalls = 0
    /\ recheck = "none"
    /\ HistIdle
    /\ RenderIdle
    /\ PrepIdle
    /\ keep_env \in KeepValues
    /\ cleanCalls = 0
    /\ dirAtCall = <<>>
    /\ filesAtCall = {}
    /\ DecodeIdle
    /\ RerunIdle

NextTeardown ==
    \/ StopMark \/ WaitTest \/ WaitEval \/ WaitSleep \/ StopFinally \/ StopScancel
    \/ TeardownCleanChdir
    \/ JobLeavesRunning

SpecTeardown == InitTeardown /\ [][NextTeardown]_vars

----------------------------------------------------------------------------
(* SLURMJobState.from_string and SLURMRegisteredJobData.__init__,          *)
(* slurm_interface.py:35-121                                               *)
(*                                                                         *)
(* The State field is the sequence of its parts: a code, and the suffix    *)
(* sacct appends to it if any ("CANCELLED by 1000", "RUNNING+").  The      *)
(* JobID field is the sequence of its "."-separated parts.                 *)

\* the members of the enumeration (slurm_interface.py:41-55)
JobStates ==
    {"BOOT_FAIL", "CANCELLED", "COMPLETED", "DEADLINE", "FAILED", "NODE_FAIL",
     "OUT_OF_MEMORY", "PENDING", "PREEMPTED", "RUNNING", "REQUEUED", "RESIZING",
     "REVOKED", "SUSPENDED", "TIMEOUT"}

\* the short code of each member (slurm_interface.py:60-89)
short_code(s) ==
    CASE s = "BOOT_FAIL" -> "BF"
      [] s = "CANCELLED" -> "CA"
      [] s = "COMPLETED" -> "CD"
      [] s = "DEADLINE" -> "DL"
      [] s = "FAILED" -> "F"
      [] s = "NODE_FAIL" -> "NF"
      [] s = "OUT_OF_MEMORY" -> "OOM"
      [] s = "PENDING" -> "PD"
      [] s = "PREEMPTED" -> "PR"
      [] s = "RUNNING" -> "R"
      [] s = "REQUEUED" -> "RQ"
      [] s = "RESIZING" -> "RS"
      [] s = "REVOKED" -> "RV"
      [] s = "SUSPENDED" -> "S"
      [] s = "TIMEOUT" -> "TO"

\* SLURMJobState._get_equivalent_states (slurm_interface.py:57-90): the keys of
\* the dictionary, and the member a key stands for
TableCodes == JobStates \cup {short_code(s) : s \in JobStates}
equivalent_state(code) ==
    IF code \in JobStates THEN code
    ELSE CHOOSE s \in JobStates : short_code(s) = code

\* mutant of from_string: a code followed by a suffix is decoded as the code
from_string_ByPrefix(state) ==
    IF Len(state) >= 1 /\ state[1] \in TableCodes
      THEN equivalent_state(state[1]) ELSE "None"

\* SLURMJobState.from_string (slurm_interface.py:92-94): the dictionary's entry
\* for the whole string, None when it has none
from_string(state) ==
    IF Len(state) = 1 /\ state[1] \in TableCodes
      THEN equivalent_state(state[1]) ELSE "None"

\* State fields that are no key of the dictionary
UnrecognizedStates ==
    {<<>>, <<"CANCELLED", " by 1000">>, <<"RUNNING", "+">>, <<"PD", "+">>,
     <<"running">>, <<"COMPLETING">>, <<"CG">>, <<"UNKNOWN">>}
RawStates == {<<c>> : c \in TableCodes} \cup UnrecognizedStates
RawJobIDs == {<<"101">>, <<"101", "0">>, <<"101", "batch">>}

\* SLURMRegisteredJobData.__init__ (slurm_interface.py:109-112)
Decode ==
    /\ pc = "decode"
    /\ reg_id' = Head(raw_JobID)
    /\ reg_state' = from_string(raw_State)
    /\ pc' = "decode_done"
    /\ UNCHANGED <<raw_JobID, raw_State>>
    /\ UNCHANGED <<waitRest, attachVars, envVars, runVars, stopVars, histVars>>
    /\ UNCHANGED <<renderVars, prepVars, cleanVars>>
    /\ UNCHANGED rerunVars

\* a record of the accounting query with any State and JobID field
InitDecode ==
    /\ pc = "decode"
    /\ WaitIdle
    /\ AttachIdle
    /\ EnvIdle
    /\ RunIdle
    /\ StopIdle
    /\ HistIdle
    /\ RenderIdle
    /\ PrepIdle
    /\ CleanIdle
    /\ raw_JobID \in RawJobIDs
    /\ raw_State \in RawStates
    /\ reg_id = "unset"
    /\ reg_state = "unset"
    /\ RerunIdle

NextDecode == Decode

SpecDecode == InitDecode /\ [][NextDecode]_vars

----------------------------------------------------------------------------
(* The exit status of the process, driver.py:36-45, 355-373                *)

\* the default of SYSTEM_FAILURE_EXIT_CODE (driver.py:39)
SystemFailureExitCode == 2

\* the default of BUILD_FAILURE_EXIT_CODE (driver.py:45)
BuildFailureExitCode == 1

\* the status the interpreter exits with when an exception leaves main()
\* (driver.py:373)
UncaughtExceptionStatus == 1

\* how a phase that ended with outcome o ends the process: the phases that
\* return reach `sys.exit(0)` (driver.py:369), a detected fault is
\* `sys.exit(exit_system_failure(...))` (driver.py:262, 270, 278, 281, 312), an
\* exception nothing catches ends the interpreter
exit_status(o) ==
    CASE o \in {"Success", "Prepared", "Stopped", "Cleaned"} -> 0
      [] o \in {"AttachFailure", "NotRunningFailure", "CreateFailure",
                "StartFailure"} -> SystemFailureExitCode
      [] o = "Exception" -> UncaughtExceptionStatus

----------------------------------------------------------------------------
(* Claims about wait_until                                                 *)

\* C1: wait_until(predicate, 0) evaluates the predicate exactly once, performs
\* no sleep and returns the value of that single evaluation.
C1_ZeroTimeoutEvaluatesOnce ==
    (caller = "pure" /\ pc = "wait_done" /\ N0 = 0)
        => (evals = 1 /\ sleeps = 0 /\ wret = lastEval)

\* C10: with timeout N >= 1 the predicate is evaluated immediately and again
\* after every sleep (evaluations = sleeps + 1 at return, at most N sleeps), true
\* is returned on a true evaluation and false only after the evaluation that
\* follows the last sleep was false.
C10_ReevaluatesAfterEverySleep ==
    (caller = "pure" /\ pc = "wait_done" /\ N0 >= 1)
        => /\ evals = sleeps + 1
           /\ sleeps <= N0
           /\ wret = lastEval
           /\ (wret = "False" => sleeps = N0)

----------------------------------------------------------------------------
(* Claims about attach                                                     *)

\* the lines of the query's output whose JobName is exactly job_name
ExactMatches == {i \in 1..Len(sacct_stdout) : sacct_stdout[i][2] = job_name}

\* C5: attach returns null (no handle, no error) whenever the accounting query
\* lists no job whose name matches the name looked up, the query that printed
\* nothing included.
C5_NoMatchReturnsNull ==
    (pc = "attach_done"
     /\ ~ \E i \in 1..Len(sacct_stdout) : name_filter(job_name, sacct_stdout[i]))
        => job = "None"

\* C6: when the query succeeded and lists jobs named job_name, attach returns
\* the id of one of them with the greatest Submit timestamp, and never the id of
\* a record whose name differs from job_name.
C6_NewestOfThatName ==
    (pc = "attach_done" /\ sacct_retcode = 0 /\ ExactMatches # {})
        => \E i \in ExactMatches :
              /\ job = sacct_stdout[i][1]
              /\ \A j \in ExactMatches :
                    ~ str_less(sacct_stdout[i][3], sacct_stdout[j][3])

----------------------------------------------------------------------------
(* Claims about the run phase                                              *)

\* the final drain has run and the phase went on to its last state query
FinalDrainDone == finalDrainLen >= 0

\* C2: at every moment the bytes forwarded to the sink are the first bytes of
\* the log, in file order (none twice, none skipped, none reordered), the loop
\* has forwarded exactly the bytes before read_bytes, and once the final drain
\* has run the sink holds the whole log as it was at that drain.
C2_ForwardedExactlyOnceInOrder ==
    /\ Len(sink) <= Len(data[LogPath])
    /\ sink = SubSeq(data[LogPath], 1, Len(sink))
    /\ (~FinalDrainDone => Len(sink) = read_bytes)
    /\ (FinalDrainDone => Len(sink) = finalDrainLen)

\* C2 witness: the log was written by several appends and forwarded partly by
\* a drain of the loop and partly by the final drain.
C2_Witness ==
    /\ pc = "done"
    /\ FinalDrainDone
    /\ Len(sink) = MaxLogLen
    /\ 0 < read_bytes
    /\ read_bytes < Len(sink)

\* the positions of the completion wait: from its first wait_until call to the
\* statement that leaves the loop
InCompletionWait(p, c) ==
    /\ c = "run"
    /\ p \in {"run_wait_call", "wait_test", "wait_eval", "wait_eval_isfile",
              "wait_sleep", "run_loop_test", "run_is_running", "run_getmtime",
              "run_drain"}

\* the allocation left RUNNING during the completion wait, sentinel absent
LeftWhileWaiting == InCompletionWait(leftAt[1], leftAt[2]) /\ ~sentinelAtLeave

\* C3: once the allocation has left RUNNING during the completion wait with the
\* sentinel absent, the wait in progress ends within its 10 sleeps and at most
\* one further wait_until call is made; the loop is then left through the
\* not-running break, never as executed, and the phase does not end in Success.
C3_NotRunningEndsWaitWithFailure ==
    /\ waitsAfterLeave <= 1
    /\ (caller = "run" => (sleeps <= WaitBudget /\ timeout_seconds >= 0))
    /\ (LeftWhileWaiting /\ loopExit # "none" => loopExit = "break")
    /\ (LeftWhileWaiting /\ pc = "done"
          => outcome \in {"NotRunningFailure", "Exception"})

\* C3 witness: the allocation left RUNNING in the middle of a poll cycle, one
\* further wait was needed, and the phase ended with the system failure while
\* the sentinel never appeared.
C3_Witness ==
    /\ pc = "done"
    /\ LeftWhileWaiting
    /\ waitsAfterLeave = 1
    /\ ExecutedPath \notin files
    /\ outcome = "NotRunningFailure"

\* C7 (as claimed): once a poll of the completion wait has observed the sentinel
\* with the allocation RUNNING, the execution does not end as a failure.
C7_SentinelObservedNeverFails ==
    (pc = "done" /\ loopExit = "executed") => outcome # "NotRunningFailure"

\* C7 (amended): once a poll has observed the sentinel with the allocation
\* RUNNING, the wait ends and the outcome is decided by the state query made
\* after the final drain: Success if it observes RUNNING, NotRunningFailure if
\* the allocation has left RUNNING by then.
C7_SentinelObservedThenLastQueryDecides ==
    (pc = "done" /\ loopExit = "executed" /\ FinalDrainDone)
        => /\ finalRunning \in {"True", "False"}
           /\ (finalRunning = "True" <=> outcome = "Success")
           /\ (finalRunning = "False" <=> outcome = "NotRunningFailure")

\* C7 witness: the sentinel was observed, the allocation left RUNNING during
\* the final drain, and the execution was reported as a failure.
C7_Witness ==
    /\ pc = "done"
    /\ loopExit = "executed"
    /\ leftAt[1] = "run_final_drain"
    /\ outcome = "NotRunningFailure"

\* C8: when the phase ends after the completion wait (returning or exiting with
\* the system failure), the final drain has run and the sink holds every byte
\* the log held at that drain, whatever the log's modification time.
C8_FinalDrainForwardsEverything ==
    (pc = "done" /\ outcome \in {"Success", "NotRunningFailure"}
     /\ loopExit # "none")
        => /\ FinalDrainDone
           /\ sink = SubSeq(data[LogPath], 1, finalDrainLen)

\* C8 witness: the sentinel was observed, and the final drain forwarded bytes
\* appended after the loop's last read without a change of the modification
\* time the loop had recorded.
C8_Witness ==
    /\ pc = "done"
    /\ loopExit = "executed"
    /\ outcome = "Success"
    /\ logMtime = last_read_timestamp
    /\ 0 < read_bytes
    /\ read_bytes < finalDrainLen
    /\ Len(sink) = finalDrainLen

\* C9: the canonical script path either does not exist or holds the complete
\* content being dispatched (the source's body; nothing when the source could
\* not be read), and the remote polling loop never read anything else.
C9_ScriptNeverPartial ==
    LET dispatched == IF srcReadable THEN ScriptBody ELSE <<>> IN
    /\ (ScriptPath \in files => data[ScriptPath] = dispatched)
    /\ (remotePicked => remoteScript = dispatched)

\* C9 witness: a partial body exists in the temporary file while the canonical
\* path does not exist.
C9_Witness ==
    /\ TmpPath \in files
    /\ 0 < Len(data[TmpPath])
    /\ Len(data[TmpPath]) < Len(ScriptBody)
    /\ ScriptPath \notin files

\* C9 second witness state: the remote loop has read the complete body.
C9_RemoteReadComplete ==
    /\ remotePicked
    /\ remoteScript = ScriptBody
    /\ Len(ScriptBody) >= 2

----------------------------------------------------------------------------
(* Claims about try_stop                                                   *)

\* the allocation left RUNNING while the bounded wait of try_stop was running
LeftWithinBudget ==
    /\ leftAt[2] = "try_stop"
    /\ leftAt[1] \in {"wait_test", "wait_eval", "wait_sleep"}

\* C4: scancel is never called twice; when try_stop has written the stop
\* sentinel and ended, scancel was not called if the allocation left RUNNING
\* within the bounded wait, and was called exactly once if the allocation was
\* RUNNING at the state query that follows the wait (so also whenever the
\* allocation never left RUNNING).
C4_CancelOnlyIfStillRunning ==
    /\ cancelCalls <= 1
    /\ (pc = "done" /\ outcome = "Stopped")
          => /\ (LeftWithinBudget => cancelCalls = 0)
             /\ (recheck = "True" <=> cancelCalls = 1)
             /\ (jobState = "RUNNING" => cancelCalls = 1)

\* C4 witness: the budget ran out with the allocation still RUNNING and scancel
\* was called once.
C4_Witness ==
    /\ pc = "done"
    /\ outcome = "Stopped"
    /\ stop_timeout >= 1
    /\ sleeps = stop_timeout
    /\ wret = "False"
    /\ cancelCalls = 1

\* C4 second witness state: the allocation left RUNNING during the last sleep
\* of the wait and scancel was not called.
C4_StoppedInTime ==
    /\ pc = "done"
    /\ outcome = "Stopped"
    /\ LeftWithinBudget
    /\ leftAt[1] = "wait_sleep"
    /\ wret = "False"
    /\ cancelCalls = 0

----------------------------------------------------------------------------
(* Claims about the submission artifact                                    *)

\* the fields of a request that are present: passed, not None, and set for a
\* boolean flag
PresentFields(kw) == {p \in DOMAIN kw : kw[p] \notin {"None", "False"}}

\* the flag a field's directive carries
DirectiveFlag(p) ==
    CASE p = "account" -> "--account"
      [] p = "qos" -> "--qos"
      [] OTHER -> flag(p)

\* the lines of a rendered file that are the directive of field p
DirectiveLines(a, p) ==
    {i \in 1..Len(a) : Len(a[i]) >= 2 /\ a[i][1] = "#SBATCH" /\ a[i][2] = DirectiveFlag(p)}

\* C17: for any request (any subset of the optional fields present, account and
\* qos included, flags set or unset) a submission artifact is rendered; it has
\* exactly one directive per present field, none for an absent field, exactly
\* one job-name directive, and every directive lies between the "#!/bin/bash"
\* header and the idle-payload inclusion line.
C17_OneDirectivePerPresentField ==
    /\ pc # "request_failed"
    /\ pc = "request_done" =>
          /\ artifact[1] = <<"#!/bin/bash">>
          /\ artifact[Len(artifact)] = IdleInclusion[1]
          /\ \A p \in PrepareKeywords :
                /\ Cardinality(DirectiveLines(artifact, p))
                      = IF p \in PresentFields(kwargs) \cup {"job_name"} THEN 1 ELSE 0
                /\ \A i \in DirectiveLines(artifact, p) : 1 < i /\ i < Len(artifact)

\* the statement of C17 for the requests the constructor accepts
RenderedRequestsAreExact ==
    pc = "request_failed" \/ C17_OneDirectivePerPresentField

----------------------------------------------------------------------------
(* Claims about create and the prepare phase                               *)

\* create has returned
CreateReturned == job # "unset"

\* C11: create returns a handle only if the accounting query made after the
\* bounded wait (at most 120 sleeps after the single submission) confirmed that
\* the submitted id exists, and the handle carries that id; when the id is not
\* queryable by then, or the submission returned no id, create returns null.
C11_HandleOnlyAfterConfirmedExistence ==
    /\ (caller = "create" => (sleeps <= CreateTimeout /\ timeout_seconds >= 0))
    /\ CreateReturned =>
          /\ (job # "None" => /\ existsSeen = "True"
                              /\ job = job_id
                              /\ job \in registered
                              /\ sbatchCalls = 1
                              /\ sbatch_retcode = 0)
          /\ (job_id = "None" => job = "None")
          /\ (existsSeen = "False" => job = "None")
          /\ (job_id \notin registered => job = "None")

\* C11 witness: the id became queryable during the bounded wait, after at least
\* one sleep, and create returned the handle.
C11_Witness ==
    /\ pc = "prep_job_none"
    /\ caller = "create"
    /\ sleeps >= 1
    /\ wret = "True"
    /\ job = "101"

\* C11 second witness state: the submission succeeded, the id did not become
\* queryable within the 120 sleeps, and create returned null.
C11_NullAfterTimeout ==
    /\ pc = "prep_job_none"
    /\ caller = "create"
    /\ sbatch_retcode = 0
    /\ sleeps = CreateTimeout
    /\ existsSeen = "False"
    /\ job = "None"

\* C11 third witness state: the submission returned no id and create returned
\* null after the full wait.
C11_NullWithoutId ==
    /\ pc = "prep_job_none"
    /\ job_id = "None"
    /\ sleeps = CreateTimeout
    /\ job = "None"

\* idle_script.sh is a file, executable and readable
PayloadOk == {"isfile", "x", "r"} \subseteq payload

\* C12: when idle_script.sh is missing, not readable or not executable, create
\* returns null and nothing has been submitted: the batch file is not written,
\* sbatch is not invoked and no job exists.
C12_UnusablePayloadSubmitsNothing ==
    ~PayloadOk =>
        /\ sbatchCalls = 0
        /\ BatchPath \notin files
        /\ job_id = "unset"
        /\ jobState = "NONE"
        /\ (pc # "create_check" => job = "None")

\* C12 witness: the payload is an executable file that is not readable, and
\* the phase ended with no job created.
C12_Witness ==
    /\ pc = "done"
    /\ outcome = "CreateFailure"
    /\ payload = {"isfile", "x"}
    /\ sbatchCalls = 0

----------------------------------------------------------------------------
(* Claims about the exit status                                            *)

\* C14: a phase that has ended ends the process with 0 or with the
\* system-failure code: with the system-failure code whenever it detected a
\* fault (no allocation found at attach, allocation not RUNNING), with 0 only
\* when no fault occurred, and never with the build-failure code.
C14_FaultsExitWithSystemFailureCode ==
    pc = "done" =>
        /\ exit_status(outcome) # BuildFailureExitCode
        /\ exit_status(outcome) \in {0, SystemFailureExitCode}
        /\ (exit_status(outcome) = 0 <=> outcome = "Success")

----------------------------------------------------------------------------
(* Claims about the stop request                                           *)

\* C15: the stop request never surfaces an error to its caller, also when the
\* stop sentinel cannot be written: try_stop always goes on to its bounded
\* wait after it, reaches its final state query with no exception pending and
\* ends normally.
C15_StopRequestNeverSurfacesError ==
    /\ (pc \in {"stop_finally", "stop_scancel"}
          => (caller = "try_stop" /\ ~excPending))
    /\ (pc = "done" => outcome = "Stopped")

----------------------------------------------------------------------------
(* Claims about clean_chdir                                                *)

\* the workspace is to be kept
KeepWorkspace == truthy(keep_env)

\* the workspace is as the latest call of clean_chdir found it
UnchangedByLastCall ==
    /\ workDirExists = dirAtCall[Len(dirAtCall)]
    /\ files = filesAtCall

\* C16: after any call of clean_chdir: no error was raised; with the workspace
\* to be kept nothing has changed; otherwise the workspace directory does not
\* exist; and a call that found the directory already removed (so the second of
\* two calls in a row) changed nothing.
C16_CleanupRemovesOnceAndTolerates ==
    cleanCalls >= 1 =>
        /\ outcome # "Exception"
        /\ Len(dirAtCall) = cleanCalls
        /\ (KeepWorkspace => UnchangedByLastCall)
        /\ (~KeepWorkspace => (~workDirExists /\ files = {}))
        /\ (~dirAtCall[Len(dirAtCall)] => UnchangedByLastCall)

\* C16 witness: the first call removed an existing directory, the second call
\* found it removed and returned.
C16_Witness ==
    /\ pc = "clean_done"
    /\ ~KeepWorkspace
    /\ dirAtCall = <<TRUE, FALSE>>
    /\ ~workDirExists
    /\ outcome = "none"

\* C16 second witness state: a workspace with files in it is kept because
\* CI_KEEP_BUILD_DIR is set.
C16_Kept ==
    /\ cleanCalls >= 1
    /\ KeepWorkspace
    /\ workDirExists
    /\ files # {}

----------------------------------------------------------------------------
(* Claims about the decoding of states                                     *)

\* the State field is a key of the code table
Recognized == Len(raw_State) = 1 /\ raw_State[1] \in TableCodes

\* the member of the enumeration a recognized State field names
NamedState ==
    IF raw_State[1] \in JobStates THEN raw_State[1]
    ELSE CHOOSE s \in JobStates : short_code(s) = raw_State[1]

\* C18 (as claimed): every short or long code of the table is decoded to its
\* state, and every unrecognized code to the state UNKNOWN.
C18_UnrecognizedDecodesToUnknown ==
    pc = "decode_done" =>
        /\ (Recognized => reg_state = NamedState)
        /\ (~Recognized => reg_state = "UNKNOWN")

\* C18 (amended): every short or long code of the table is decoded to its
\* state, and every unrecognized code to no state at all (None), which is no
\* member of the enumeration and so neither RUNNING nor PENDING; the record's
\* id is the JobID field up to its first ".".
C18_UnrecognizedDecodesToNoState ==
    pc = "decode_done" =>
        /\ (Recognized => (reg_state = NamedState /\ reg_state \in JobStates))
        /\ (~Recognized => (reg_state = "None" /\ reg_state \notin JobStates))
        /\ (reg_state \in {"RUNNING", "PENDING"}
              => raw_State \in {<<"RUNNING">>, <<"R">>, <<"PENDING">>, <<"PD">>})
        /\ reg_id = raw_JobID[1]

\* C18 witness: a State field with a suffix was decoded.
C18_Witness ==
    /\ pc = "decode_done"
    /\ raw_State = <<"CANCELLED", " by 1000">>
    /\ reg_state = "None"

----------------------------------------------------------------------------
(* Claims about the outcome of an execution                                *)

\* the script was dispatched and the completion wait was entered
ExecutionStarted == caller = "run"

\* C19: every execution that was started (its script read and dispatched, its
\* completion wait entered) ends as Success or as NotRunningFailure, whatever
\* the remote side does, also when a drain pass finds no log file.
C19_EndsAsSuccessOrNotRunningFailure ==
    (pc = "done" /\ ExecutionStarted)
        => outcome \in {"Success", "NotRunningFailure"}

\* the allocation left RUNNING after the phase found it running and before the
\* state query of a poll of the completion wait
LeftBeforeItsPoll ==
    \/ /\ leftAt[2] = "run"
       /\ leftAt[1] \in {"run_wait_call", "wait_test", "wait_eval", "wait_sleep",
                         "run_is_running", "run_getmtime", "run_drain"}
    \/ leftAt[1] \in {"exec_read_source", "exec_open_tmp", "exec_write",
                      "exec_rename"}

\* C20: a poll made when the allocation is no longer RUNNING never ends the
\* completion wait as executed, sentinel present or not: the wait is then left
\* through the not-running break and the execution is not a Success; and an
\* execution is a Success only if the wait ended on a poll that observed
\* RUNNING and the last state query observed RUNNING too.
C20_NotRunningTakesPrecedence ==
    /\ (LeftBeforeItsPoll /\ loopExit # "none") => loopExit = "break"
    /\ (LeftBeforeItsPoll /\ pc = "done") => outcome # "Success"
    /\ (pc = "done" /\ outcome = "Success")
          => /\ loopExit = "executed"
             /\ finalRunning = "True"
             /\ leftAt[1] = "never"

\* C20 witness: the sentinel existed when the allocation left RUNNING during a
\* sleep of the wait; the following polls found the sentinel and the
\* allocation not RUNNING, and the execution was reported as a failure.
C20_Witness ==
    /\ pc = "done"
    /\ leftAt = <<"wait_sleep", "run">>
    /\ sentinelAtLeave
    /\ ExecutedPath \in files
    /\ loopExit = "break"
    /\ outcome = "NotRunningFailure"

----------------------------------------------------------------------------
(* Claims about successive executions of one script name                   *)

\* the bytes of the log that were there before this execution began
StaleForwarded == {i \in 1..Len(sink) : sink[i] <= staleLen}

\* C21: an execution is reported as Success only if its completion sentinel
\* was created after its script was dispatched, and nothing the log held
\* before the execution began is forwarded as its output: a sentinel or log
\* content left by an earlier execution of the same script name plays no part.
C21_SuccessNeedsItsOwnSentinel ==
    /\ (pc = "done" /\ outcome = "Success") => ~staleSentinel
    /\ StaleForwarded = {}

----------------------------------------------------------------------------
(* Claims about the teardown of run_cleanup_file_variables                 *)

\* the call of clean_chdir found the workspace and removed it
RemovedByTeardown == cleanCalls >= 1 /\ dirAtCall[1] /\ ~workDirExists

\* C22: the workspace is removed only after try_stop returned, and never
\* while the allocation is RUNNING. The state does not return to RUNNING once
\* left, so a RUNNING allocation in a state that follows the removal was
\* RUNNING when the workspace was removed.
C22_NoRemovalWhileRunning ==
    RemovedByTeardown =>
        /\ recheck \in {"True", "False"}
        /\ jobState # "RUNNING"

----------------------------------------------------------------------------
(* Claims about the termination of the completion wait                     *)

\* the loop of driver.py:292-303 was entered and control is past it
CompletionWaitEnded ==
    /\ ExecutionStarted
    /\ pc \in {"run_final_drain", "run_final_check", "done"}

\* the phase ends, whatever its outcome
RunEnds == <>(pc = "done")

\* C23: the completion wait ends if and only if a poll observed the sentinel
\* with the allocation RUNNING, or the allocation was observed not RUNNING;
\* while the allocation stays RUNNING without a sentinel the wait goes on.
\* Stated as the safety half: the wait ended only through one of these two
\* observations.
C23_WaitEndsOnlyOnSentinelOrNotRunning ==
    CompletionWaitEnded => loopExit \in {"executed", "break"}

----------------------------------------------------------------------------
(* Claims about the termination of wait_until                              *)

WaitEntered == caller \in {"pure", "try_stop"}

WaitReturned == wret # "none"

\* what holds at every moment of a call: the counter is the timeout less the
\* sleeps made; from a timeout >= 0 it stays >= 0, so at most that many sleeps
\* are made; from a negative timeout it stays negative, so the loop test never
\* fails and the only return is the `return True` of a true evaluation
WaitBudget_Safety ==
    WaitEntered =>
        /\ timeout_seconds = N0 - sleeps
        /\ (N0 >= 0 => (timeout_seconds >= 0 /\ sleeps <= N0))
        /\ (N0 < 0 => (timeout_seconds < 0 /\ (WaitReturned => wret = "True")))

\* C24: wait_until returns for every predicate and every timeout >= 0, after
\* at most timeout sleeps; with a negative timeout the budget is never used
\* up and the call returns only through a true evaluation of the predicate.
C24_TerminatesForNonNegativeTimeoutOnly ==
    /\ []WaitBudget_Safety
    /\ ((WaitEntered /\ N0 >= 0) ~> WaitReturned)

\* C24 witness: try_stop with a negative stop timeout slept more often than
\* the size of its timeout and returned only because the allocation left
\* RUNNING; nothing was cancelled.
C24_Witness ==
    /\ caller = "try_stop"
    /\ N0 < 0
    /\ stop_timeout = N0
    /\ sleeps > -N0
    /\ wret = "True"
    /\ outcome = "Stopped"
    /\ cancelCalls = 0

\* C24 second witness state: a timeout >= 1 used up by a predicate that was
\* false at every evaluation.
C24_Exhausted ==
    /\ caller = "pure"
    /\ N0 >= 1
    /\ sleeps = N0
    /\ wret = "False"

\* C24 third witness state: a call with a negative timeout that is still
\* waiting after every sleep the model follows.
C24_StillWaiting ==
    /\ WaitEntered
    /\ N0 < 0
    /\ sleeps = MaxNegSleeps
    /\ ~WaitReturned

====
